---------------------------- MODULE Spec2Model ----------------------------
(***************************************************************************)
(* A model of the update processing pipeline of telegram2notion:           *)
(*   - the run orchestrator  (app/processing/workflow_processor.py)        *)
(*   - the idempotency ledger (app/state_manager.py)                       *)
(*   - the webhook delivery path and its dedup cache (app/webhook_api.py)  *)
(*   - the Gladia admission controller (workflow_processor.py)             *)
(*                                                                         *)
(* The program runs on one asyncio event loop: code between two awaits is  *)
(* one atomic step, and every await is a point where another task may run. *)
(* The actions below are cut exactly at the awaits of the source.          *)
(***************************************************************************)
EXTENDS Integers, Sequences, FiniteSets, TLC

(***************************************************************************)
(* Bounds of the model.                                                    *)
(***************************************************************************)
\* update identifiers 1..MaxId exist in the source log
MaxId == 2
\* longest list of mutation intents the inference collaborator returns
MaxActions == 1

Ids == 1..MaxId

\* The calls of run() and process_update alive at one time: two asyncio
\* tasks, each of which runs one call after another.
Tasks == {"task1", "task2"}

\* largest GLADIA_MAX_CONCURRENT_TRANSCRIPTIONS
MaxK == 2
\* largest GLADIA_MAX_TRANSCRIPTIONS_PER_HOUR
MaxR == 2
\* largest GLADIA_RATE_LIMIT_WINDOW_SECONDS
MaxW == 2
\* largest GLADIA_RATE_LIMIT_COOLDOWN_SECONDS
MaxCooldown == 1
\* the clock runs from 0 to MaxTime
MaxTime == 6

\* The voice updates whose workers go through the admission controller.
Workers == {"w1", "w2", "w3"}

\* largest WEBHOOK_UPDATE_CACHE_SIZE
MaxCache == 2
\* update identifiers 1..MaxHookId arrive at the webhook endpoint
MaxHookId == 3
\* requests the webhook endpoint receives
MaxRequests == 4
\* requests suspended in telegram_webhook at one time
MaxInFlight == 2

HookIds == 1..MaxHookId

\* identifiers 1..MaxStored are handed to save_processed_update_ids
MaxStored == 3

StoredIds == 1..MaxStored

\* updates 1..MaxLogId arrive at the update source
MaxLogId == 5
\* largest STARTUP_POLLING_MAX_RUNS
MaxRuns == 2
\* longest list of intents handed to _execute_notion_actions
MaxIntents == 3

VARIABLES
    \* ---- the state file as the file system holds it (state_manager.py) ----
    disk,       \* the file at settings.STATE_FILE_PATH
    fop         \* history: the call of state_manager made last

VARIABLES
    \* ---- startup (bootstrap.py) and the update source behind get_updates ----
    source,     \* the updates the Bot API holds, and history of the fetches
    boot        \* where _prepare_webhook_mode stands, and its passes so far

\* longest list of structured thoughts
MaxThoughts == 2
\* most documents a vector search returns (RAG_TOP_K_PER_THOUGHT)
MaxHits == 2

VARIABLES
    \* ---- one call of _get_rag_context ----
    rag         \* what structuring and the searches return, and its result

VARIABLES
    \* ---- one call of _execute_notion_actions ----
    exec        \* its argument, the store calls it has handed to gather, and
                \* self.summary["notion_actions_executed"] of the processor

VARIABLES
    \* ---- the state file (state_manager.py) ----
    fileOk,     \* TRUE: the file exists and holds valid JSON
    ledger,     \* the identifiers stored in the file (meaningful when fileOk)
    \* ---- the webhook dedup cache (webhook_api.py) ----
    cacheQ,     \* _webhook_update_cache: the FIFO deque
    cacheSet,   \* _webhook_update_cache_set
    \* ---- one record of locals per asyncio task ----
    kind,       \* "none" | "batch" (run) | "push" (process_update)
    pc,         \* the await the task is suspended at
    upd,        \* push: update.update_id (0 otherwise)
    loaded,     \* processed_ids as returned by get_processed_update_ids()
    todo,       \* the updates handed to _extract_content_from_updates
    pending,    \* updates whose _process_single_update has not returned yet
    successful, \* successful_ids
    acts,       \* the list returned by llm.process_thoughts
    tasks,      \* the store calls handed to asyncio.gather, with their state
    saves,      \* history: the sets this run passed to save_processed_update_ids
    decided,    \* history: the updates whose text was passed to process_thoughts
    ret,        \* how the call ended: "none" (it has not), returned "true",
                \* "false" or "void" (None), or "raised" (an exception left it)
    exc,        \* the call that raised last in this run: "none", "load",
                \* "fetch", "schema", "rag", "decide" (process_thoughts raised),
                \* "inference" (raised and absorbed inside process_thoughts)
                \* or "save"
    summaries,  \* history: the run summaries the call has logged
    called      \* history: the stages the call has entered: "store" (the
                \* schema and the pages are requested from the document
                \* store), "context" (_get_rag_context), "decide"
                \* (llm.process_thoughts), "execute" (store calls handed to
                \* gather)

VARIABLES
    \* ---- the admission controller and its settings, one record ----
    gate

\* ---- settings read by the admission controller (config.py 38-41) ----
\* GLADIA_MAX_CONCURRENT_TRANSCRIPTIONS (validated > 0)
K == gate.K
\* GLADIA_MAX_TRANSCRIPTIONS_PER_HOUR (validated >= 0)
R == gate.R
\* GLADIA_RATE_LIMIT_WINDOW_SECONDS (validated > 0)
W == gate.W
\* GLADIA_RATE_LIMIT_COOLDOWN_SECONDS (validated >= 0)
cooldown == gate.cooldown
\* ---- the admission controller (WorkflowProcessor, lines 39-41) ----
\* the clock, in seconds
now == gate.now
\* _gladia_request_timestamps: the deque of slot timestamps
stamps == gate.stamps
\* the free permits of gladia_semaphore
permits == gate.permits
\* where each voice worker stands in _process_single_update
wpc == gate.wpc
\* the time the asyncio.sleep of a refused worker ends
wake == gate.wake
\* history: the times at which a gated call was entered
starts == gate.starts
\* history: the workers that called acquire at time 0
asked == gate.asked
\* history: for these, the time acquire returned (-1: not yet)
got == gate.got
\* history: how the gated call that ended last ended
ended == gate.ended

gateVars == <<gate>>

VARIABLES
    \* ---- the webhook endpoint (webhook_api.py), one record ----
    hook

\* the setting (config.py, validated > 0)
WEBHOOK_UPDATE_CACHE_SIZE == hook.WEBHOOK_UPDATE_CACHE_SIZE
\* TRUE: a handler is registered (update_handler is not None)
update_handler == hook.update_handler
\* the registered secret, "none" for None
webhook_secret == hook.webhook_secret
\* the bodies of the requests suspended at the awaits of lines 122-135, in
\* the order of their arrival
parsing == hook.parsing
\* the number of scheduled _dispatch_update tasks not yet ended
running == hook.running
\* history: the number of requests received
received == hook.received
\* history: the identifiers mark_if_new inserted, in order
order == hook.order
\* history: the request answered last
last == hook.last

hookVars == <<hook>>

diskVars == <<disk, fop>>
startupVars == <<source, boot>>
restVars == <<diskVars, startupVars, exec, rag>>
fileVars == <<fileOk, ledger>>
cacheVars == <<cacheQ, cacheSet>>
taskVars == <<kind, pc, upd, loaded, todo, pending, successful, acts, tasks,
              saves, decided, ret, exc, summaries, called>>
vars == <<fileOk, ledger, cacheQ, cacheSet, kind, pc, upd, loaded, todo,
          pending, successful, acts, tasks, saves, decided, ret, exc,
          summaries, called,
          gate,
          hook,
          disk, fop, source, boot, exec, rag>>

(***************************************************************************)
(* Update payloads (telegram.Update.message): the log holds a text         *)
(* message, a voice note and an update without a processable message, in   *)
(* turn.                                                                   *)
(***************************************************************************)
PayloadOf(u) ==
    CASE u % 3 = 1 -> "text"
      [] u % 3 = 2 -> "voice"
      [] OTHER     -> "none"

(***************************************************************************)
(* state_manager.get_processed_update_ids: the stored set, or the empty    *)
(* set when the file is missing or holds invalid JSON.                     *)
(***************************************************************************)
get_processed_update_ids ==
    IF fileOk THEN ledger ELSE {}

Max(S) == CHOOSE m \in S : \A x \in S : x <= m

\* set(...) of a list
ElementsOf(q) == {q[i] : i \in 1..Len(q)}

\* an offset that counts the processed updates
CountOffset(processed_ids) == Cardinality(processed_ids) + 1

(***************************************************************************)
(* _fetch_and_filter_updates, line 133: the offset passed to get_updates.  *)
(***************************************************************************)
FetchOffset(processed_ids) ==
    (IF processed_ids # {} THEN Max(processed_ids) ELSE 0) + 1

\* a filter that lets every fetched update through
UnfilteredUpdates(updates, processed_ids) == updates

(***************************************************************************)
(* _fetch_and_filter_updates, line 139.                                    *)
(***************************************************************************)
Unprocessed(updates, processed_ids) ==
    {u \in updates : u \notin processed_ids}


(***************************************************************************)
(* Mutation intents as returned by llm.process_thoughts: dictionaries with *)
(* an "action" and optional "page_id" and "data" (models.NotionAction).    *)
(***************************************************************************)
Intents ==
    [action : {"create", "update", "archive"}, page_id : BOOLEAN, data : BOOLEAN]

\* the dictionaries _execute_notion_actions may be handed (line 269: a list
\* of Dict[str, Any]): intents, and dictionaries whose "action" is none of
\* the three
Dicts ==
    [action : {"create", "update", "archive", "other"},
     page_id : BOOLEAN, data : BOOLEAN]

\* the intents the inference collaborator returns in the pipeline model:
\* a complete create and an update without a target
PipelineIntents ==
    { [action |-> "create", page_id |-> FALSE, data |-> TRUE],
      [action |-> "update", page_id |-> FALSE, data |-> TRUE] }

SeqsUpTo(S, n) == UNION {[1..k -> S] : k \in 0..n}

\* the non-empty lists process_thoughts may return
ActionLists == SeqsUpTo(PipelineIntents, MaxActions) \ {<<>>}

(***************************************************************************)
(* _execute_notion_actions, lines 273-291: partition by class,             *)
(* concatenate create, update, archive, and keep the complete intents.     *)
(***************************************************************************)
OfClass(actions, c) == SelectSeq(actions, LAMBDA a : a.action = c)

\* a list that is left in the order of the input
InputOrder(actions) == actions

\* a validation that looks at the action type only
IsKnownAction(a) == a.action \in {"create", "update", "archive"}

OrderedActions(actions) ==
    OfClass(actions, "create") \o OfClass(actions, "update")
        \o OfClass(actions, "archive")

IsSubmittable(a) ==
    \/ a.action = "create" /\ a.data
    \/ a.action = "update" /\ a.page_id /\ a.data
    \/ a.action = "archive" /\ a.page_id

SubmittedTasks(actions) ==
    LET kept == SelectSeq(OrderedActions(actions), IsSubmittable)
    IN  [i \in 1..Len(kept) |-> [op |-> kept[i].action, st |-> "inflight"]]

\* a gather that does not wait for the store calls
GatherReturnsAtOnce(ts) == TRUE

(***************************************************************************)
(* asyncio.gather with return_exceptions=True, line 297: returns once      *)
(* every store call has returned or raised.                                *)
(***************************************************************************)
GatherReturned(ts) ==
    \A i \in 1..Len(ts) : ts[i].st # "inflight"

\* a persist step that forgets the ledger it loaded
PersistOnlySuccessful(processed_ids, successful_ids) == successful_ids

(***************************************************************************)
(* _persist_successful_updates, lines 169-172: the set handed to           *)
(* save_processed_update_ids.                                              *)
(***************************************************************************)
PersistSet(processed_ids, successful_ids) ==
    processed_ids \cup successful_ids

(***************************************************************************)
(* Initial state: no state file yet, empty dedup cache, no task.           *)
(***************************************************************************)
PipelineInit ==
    /\ fileOk = FALSE
    /\ ledger = {}
    /\ cacheQ = <<>>
    /\ cacheSet = {}
    /\ kind = [t \in Tasks |-> "none"]
    /\ pc = [t \in Tasks |-> "idle"]
    /\ upd = [t \in Tasks |-> 0]
    /\ loaded = [t \in Tasks |-> {}]
    /\ todo = [t \in Tasks |-> {}]
    /\ pending = [t \in Tasks |-> {}]
    /\ successful = [t \in Tasks |-> {}]
    /\ acts = [t \in Tasks |-> <<>>]
    /\ tasks = [t \in Tasks |-> <<>>]
    /\ saves = [t \in Tasks |-> <<>>]
    /\ decided = [t \in Tasks |-> {}]
    /\ ret = [t \in Tasks |-> "none"]
    /\ exc = [t \in Tasks |-> "none"]
    /\ summaries = [t \in Tasks |-> 0]
    /\ called = [t \in Tasks |-> {}]

(***************************************************************************)
(* WorkflowProcessor.__init__, lines 38-40, under settings k, r, w, c: the *)
(* semaphore holds k permits and the deque of timestamps is empty.         *)
(***************************************************************************)
GateInit(k, r, w, c) ==
    gate = [K |-> k, R |-> r, W |-> w, cooldown |-> c,
            now |-> 0,
            stamps |-> <<>>,
            permits |-> k,
            wpc |-> [x \in Workers |-> "idle"],
            wake |-> [x \in Workers |-> 0],
            starts |-> <<>>,
            asked |-> {},
            got |-> [x \in Workers |-> -1],
            ended |-> "none"]

\* what the history variable last holds before any request was answered
NoRequest == [kind |-> "none"]

(***************************************************************************)
(* webhook_api.py, lines 22-30, under cache size n: no handler and no      *)
(* secret registered, the cache empty.  The cache itself is part of        *)
(* PipelineInit.                                                           *)
(***************************************************************************)
HookInit(n, handler, secret) ==
    hook = [WEBHOOK_UPDATE_CACHE_SIZE |-> n,
            update_handler |-> handler,
            webhook_secret |-> secret,
            parsing |-> <<>>,
            running |-> 0,
            received |-> 0,
            order |-> <<>>,
            last |-> NoRequest]

\* The secret start_hybrid_runtime registers (bootstrap.py, lines 90-103).
Secret == "s3cret"

\* The pipeline specification abstracts the voice workers by ExtractOne and
\* the request validation by Deliver: the admission controller stays as
\* constructed, the webhook endpoint as registered by start_hybrid_runtime,
\* with a cache of one entry.
(***************************************************************************)
(* The state file before the program has run: there is none.  A file is    *)
(* "missing", "text" (what json.dump has written of a list: the items      *)
(* written so far, and whether the closing bracket has been written) or    *)
(* "binary" (bytes that are no UTF-8 text); permitted tells whether the    *)
(* process may open it.                                                    *)
(***************************************************************************)
NoFile ==
    [state |-> "missing", items |-> <<>>, closed |-> FALSE, permitted |-> TRUE]

NoCall == [op |-> "none"]

DiskInit ==
    /\ disk = NoFile
    /\ fop = NoCall

(***************************************************************************)
(* Startup has not begun and the source holds nothing; no call of          *)
(* _execute_notion_actions has been made.                                  *)
(***************************************************************************)
SourceInit(mode, n) ==
    source = [mode |-> mode, held |-> 1..n, arrived |-> n, offset |-> 0,
              fetched |-> {}, lost |-> {}, retry |-> {}, skipped |-> {}]

BootInit(max_runs) ==
    boot = [max_runs |-> max_runs, pc |-> "start", results |-> <<>>,
            webhook |-> FALSE]

NoExec == [actions |-> <<>>, calls |-> <<>>, pc |-> "called", summary |-> 0]

\* no call of _get_rag_context has been made
NoRag == [structured |-> <<>>, pc |-> "idle", out |-> <<>>]

RestInit ==
    /\ DiskInit
    /\ SourceInit("log", 0)
    /\ BootInit(0)
    /\ exec = NoExec
    /\ rag = NoRag

Init ==
    /\ PipelineInit
    /\ GateInit(1, 0, 1, 0)
    /\ HookInit(1, TRUE, Secret)
    /\ RestInit

\* The admission controller under every setting config.py accepts.
InitGate ==
    /\ PipelineInit
    /\ HookInit(1, TRUE, Secret)
    /\ \E k \in 1..MaxK, r \in 0..MaxR, w \in 1..MaxW, c \in 0..MaxCooldown :
         GateInit(k, r, w, c)
    /\ RestInit

\* The webhook endpoint under every cache size config.py accepts, before
\* register_update_handler has been called.
InitHook ==
    /\ PipelineInit
    /\ GateInit(1, 0, 1, 0)
    /\ \E n \in 1..MaxCache : HookInit(n, FALSE, "none")
    /\ RestInit

(***************************************************************************)
(* A call that has ended stands at "done" with its locals for one state:   *)
(* the coroutine returns and its frame is released within one step of the  *)
(* event loop, before any other task runs.                                 *)
(***************************************************************************)
NoCallEnded == \A t \in Tasks : pc[t] # "done"

(***************************************************************************)
(* process_update, lines 98-101: the call ends before its try statement,   *)
(* returning r or letting the exception of call e out.                     *)
(***************************************************************************)
LeaveBeforeTry(t, r, e) ==
    /\ pc' = [pc EXCEPT ![t] = "done"]
    /\ ret' = [ret EXCEPT ![t] = r]
    /\ exc' = [exc EXCEPT ![t] = e]
    /\ UNCHANGED summaries

(***************************************************************************)
(* The end of a call inside the try statement: what it returns (r) and the *)
(* call that raised (e).  The finally clause logs the summary (run() line  *)
(* 87, process_update line 122).  run() returns processed_updates (line    *)
(* 88); process_update returns None.                                       *)
(***************************************************************************)
Finish(t, r, e) ==
    /\ pc' = [pc EXCEPT ![t] = "done"]
    /\ ret' = [ret EXCEPT ![t] = r]
    /\ exc' = [exc EXCEPT ![t] = e]
    /\ summaries' = [summaries EXCEPT ![t] = @ + 1]

\* a flag that is never set
NeverProcessed(t) == IF kind[t] = "batch" THEN "false" ELSE "void"

\* the value of a call that got past the Filter stage
Processed(t) == IF kind[t] = "batch" THEN "true" ELSE "void"

(***************************************************************************)
(* The orchestrator boundary: run() lines 84-88, process_update lines      *)
(* 119-122.  The exception raised by call e is logged, the summary is      *)
(* logged, and the call returns r.  Nothing is written.                    *)
(***************************************************************************)
ExceptClause(t, r, e) ==
    /\ Finish(t, r, e)
    /\ UNCHANGED <<fileVars, saves>>

(***************************************************************************)
(* save_processed_update_ids(ids), called by task t, lines 65-83: the file *)
(* is opened with mode 'w' and the sorted list dumped into it.  The call   *)
(* either succeeds, or raises before the file is touched (mkdir or open    *)
(* fails), or raises after open() has truncated the file: what is left is  *)
(* no valid JSON.  Every caller sits inside the try of run() or            *)
(* process_update, so the exception ends the call in its except clause.    *)
(* e is the exception the run has absorbed before the save, if any.        *)
(***************************************************************************)
SaveAndFinish(t, ids, r, e) ==
    /\ saves' = [saves EXCEPT ![t] = Append(@, ids)]
    /\ \/ /\ fileOk' = TRUE
          /\ ledger' = ids
          /\ Finish(t, r, e)
       \/ /\ UNCHANGED fileVars
          /\ Finish(t, r, "save")
       \/ /\ fileOk' = FALSE
          /\ ledger' = {}
          /\ Finish(t, r, "save")

(***************************************************************************)
(* _extract_content_from_updates, lines 150-151: one worker per update.    *)
(* _process_single_update, lines 210-217 and 232-233, has no await for a   *)
(* text message (its text is returned) and for an update without message,  *)
(* text or voice (nothing is returned): these workers are through when     *)
(* gather is awaited.  A voice worker awaits the download (line 224).      *)
(***************************************************************************)
TextOf(updates) == {u \in updates : PayloadOf(u) = "text"}

VoiceOf(updates) == {u \in updates : PayloadOf(u) = "voice"}

StartExtraction(t, updates) ==
    /\ todo' = [todo EXCEPT ![t] = updates]
    /\ pending' = [pending EXCEPT ![t] = VoiceOf(updates)]
    /\ successful' = [successful EXCEPT ![t] = TextOf(updates)]
    /\ pc' = [pc EXCEPT ![t] = "extract"]

\* the task that runs start_hybrid_runtime and awaits the passes of the
\* startup catch-up (bootstrap.py line 73)
Main == "task1"

(***************************************************************************)
(* run(), lines 61-67: reset, load the ledger, call get_updates (await).   *)
(* A load that raises (the state directory cannot be made) is caught by    *)
(* the except clause of line 84.                                           *)
(***************************************************************************)
RunStart(t) ==
    /\ UNCHANGED <<gateVars, hookVars, restVars, called>>
    /\ NoCallEnded
    /\ pc[t] = "idle"
    /\ kind' = [kind EXCEPT ![t] = "batch"]
    /\ \/ /\ loaded' = [loaded EXCEPT ![t] = get_processed_update_ids]
          /\ pc' = [pc EXCEPT ![t] = "fetch"]
          /\ UNCHANGED <<fileVars, saves, ret, exc, summaries>>
       \/ /\ ExceptClause(t, "false", "load")
          /\ UNCHANGED loaded
    /\ UNCHANGED <<cacheVars, upd, todo, pending, successful, acts,
                   tasks, decided>>

(***************************************************************************)
(* _fetch_and_filter_updates, lines 134-146, and run() lines 68-71:        *)
(* get_updates returns some updates of the log (or raises); the            *)
(* unprocessed ones go to extraction.  When all of them are in the ledger, *)
(* line 145 saves the ledger, joined with them.                            *)
(***************************************************************************)
FilterAndExtract(t, updates) ==
    IF updates = {}
    THEN /\ Finish(t, "false", "none")
         /\ UNCHANGED <<fileVars, todo, pending, successful, saves>>
    ELSE IF Unprocessed(updates, loaded[t]) = {}
    THEN /\ SaveAndFinish(t, loaded[t] \cup updates, "false", "none")
         /\ UNCHANGED <<todo, pending, successful>>
    ELSE /\ StartExtraction(t, Unprocessed(updates, loaded[t]))
         /\ UNCHANGED <<fileVars, saves, ret, exc, summaries>>

RunFetch(t) ==
    /\ UNCHANGED <<gateVars, hookVars, restVars, called>>
    /\ NoCallEnded
    /\ pc[t] = "fetch"
    /\ \/ /\ ExceptClause(t, "false", "fetch")
          /\ UNCHANGED <<todo, pending, successful>>
       \/ \E updates \in SUBSET Ids : FilterAndExtract(t, updates)
    /\ UNCHANGED <<cacheVars, kind, upd, loaded, acts, tasks, decided>>

(***************************************************************************)
(* _process_single_update for a voice note, lines 218-231: the download    *)
(* and the transcription are awaited; the worker returns the transcript,   *)
(* or nothing (empty transcript, download or transcription error).         *)
(***************************************************************************)
ExtractOne(t, u) ==
    /\ UNCHANGED <<gateVars, hookVars, restVars, called>>
    /\ NoCallEnded
    /\ pc[t] = "extract"
    /\ u \in pending[t]
    /\ pending' = [pending EXCEPT ![t] = @ \ {u}]
    /\ \E text \in BOOLEAN :
         successful' = [successful EXCEPT ![t] = IF text THEN @ \cup {u} ELSE @]
    /\ UNCHANGED <<fileVars, cacheVars, kind, pc, upd, loaded, todo,
                   acts, tasks, saves, decided, ret, exc, summaries>>

(***************************************************************************)
(* asyncio.gather, line 151: returns once every worker has returned.       *)
(***************************************************************************)
WorkersReturned(t) == pending[t] = {}

(***************************************************************************)
(* _extract_content_from_updates returns (lines 151-160), then run() lines *)
(* 72-75 or process_update lines 109-112.  Without thoughts run() calls    *)
(* _persist_successful_updates with an empty list, which writes nothing    *)
(* (line 169), and process_update returns.                                 *)
(***************************************************************************)
ExtractGather(t) ==
    /\ UNCHANGED <<gateVars, hookVars, restVars, called>>
    /\ NoCallEnded
    /\ pc[t] = "extract"
    /\ WorkersReturned(t)
    /\ IF successful[t] = {}
       THEN Finish(t, Processed(t), "none")
       ELSE /\ pc' = [pc EXCEPT ![t] = IF kind[t] = "batch" THEN "schema" ELSE "rag"]
            /\ UNCHANGED <<ret, exc, summaries>>
    /\ UNCHANGED <<fileVars, cacheVars, kind, upd, loaded, todo,
                   pending, successful, acts, tasks, saves, decided>>

(***************************************************************************)
(* _mark_update_if_new, lines 198-207.                                     *)
(***************************************************************************)
\* a membership test that finds nothing
MarkIsAlwaysNew(update_id) == TRUE

\* lines 199-200
MarkIsNew(update_id) == update_id \notin cacheSet

\* an overflow test that lets the cache grow one entry too far
CacheEvictsLate == Len(cacheQ) > WEBHOOK_UPDATE_CACHE_SIZE

\* lines 201-202
CacheEvicts == Len(cacheQ) >= WEBHOOK_UPDATE_CACHE_SIZE

\* a pop that takes the newest entry
PopRight(q) == [oldest |-> q[Len(q)], rest |-> SubSeq(q, 1, Len(q) - 1)]

\* deque.popleft, line 203: the entry taken and the deque left
PopLeft(q) == [oldest |-> Head(q), rest |-> Tail(q)]

\* an eviction that takes the oldest entry off the deque and leaves it in the set
MarkInsertNoDiscard(update_id) ==
    /\ cacheQ' = Append(IF CacheEvicts THEN PopLeft(cacheQ).rest ELSE cacheQ,
                        update_id)
    /\ cacheSet' = cacheSet \cup {update_id}

\* lines 202-206
MarkInsert(update_id) ==
    /\ cacheQ' = Append(IF CacheEvicts THEN PopLeft(cacheQ).rest ELSE cacheQ,
                        update_id)
    /\ cacheSet' = (IF CacheEvicts THEN cacheSet \ {PopLeft(cacheQ).oldest}
                                   ELSE cacheSet) \cup {update_id}

(***************************************************************************)
(* telegram_webhook, lines 129-139, for a request that passed validation   *)
(* and carries update u: a duplicate is answered and dropped, a new one is *)
(* recorded and _dispatch_update is scheduled with asyncio.create_task.    *)
(***************************************************************************)
Deliver(u) ==
    /\ UNCHANGED <<gateVars, hookVars, restVars, called>>
    /\ NoCallEnded
    /\ \/ /\ ~MarkIsNew(u)
          /\ UNCHANGED <<cacheVars, kind, pc, upd>>
       \/ /\ MarkIsNew(u)
          /\ MarkInsert(u)
          /\ \E t \in Tasks :
               /\ pc[t] = "idle"
               /\ kind' = [kind EXCEPT ![t] = "push"]
               /\ upd' = [upd EXCEPT ![t] = u]
               /\ pc' = [pc EXCEPT ![t] = "queued"]
    /\ UNCHANGED <<fileVars, loaded, todo, pending, successful, acts,
                   tasks, saves, decided, ret, exc, summaries>>

(***************************************************************************)
(* _dispatch_update and process_update, lines 97-106: load the ledger      *)
(* (outside the try: an exception leaves process_update), return if the    *)
(* update is in it, else call get_database_schema (await).                 *)
(***************************************************************************)
PushStart(t) ==
    /\ UNCHANGED <<gateVars, hookVars, restVars, called>>
    /\ NoCallEnded
    /\ pc[t] = "queued"
    /\ \/ /\ LeaveBeforeTry(t, "raised", "load")
          /\ UNCHANGED loaded
       \/ /\ loaded' = [loaded EXCEPT ![t] = get_processed_update_ids]
          /\ IF upd[t] \in get_processed_update_ids
             THEN LeaveBeforeTry(t, "void", "none")
             ELSE /\ pc' = [pc EXCEPT ![t] = "schema"]
                  /\ UNCHANGED <<ret, exc, summaries>>
    /\ UNCHANGED <<fileVars, cacheVars, kind, upd, todo, pending,
                   successful, acts, tasks, saves, decided>>

(***************************************************************************)
(* notion.get_database_schema and _build_rag_index: run() lines 75-76,     *)
(* process_update lines 106-108.  Either call may raise.  On the push      *)
(* pathway the extraction of the one update follows.                       *)
(***************************************************************************)
SchemaAndIndex(t) ==
    /\ UNCHANGED <<gateVars, hookVars, restVars>>
    /\ called' = [called EXCEPT ![t] = @ \cup {"store"}]
    /\ NoCallEnded
    /\ pc[t] = "schema"
    /\ \/ /\ ExceptClause(t, Processed(t), "schema")
          /\ UNCHANGED <<todo, pending, successful>>
       \/ /\ kind[t] = "batch"
          /\ pc' = [pc EXCEPT ![t] = "rag"]
          /\ UNCHANGED <<fileVars, saves, todo, pending, successful, ret, exc, summaries>>
       \/ /\ kind[t] = "push"
          /\ StartExtraction(t, {upd[t]})
          /\ UNCHANGED <<fileVars, saves, ret, exc, summaries>>
    /\ UNCHANGED <<cacheVars, kind, upd, loaded, acts, tasks, decided>>

(***************************************************************************)
(* _get_rag_context, lines 235-267 (run() line 77, process_update line     *)
(* 112): returns a context string, also when structuring failed (the       *)
(* sentinel of line 241); raises when a structured thought is no           *)
(* dictionary (line 246).                                                  *)
(***************************************************************************)
RagContext(t) ==
    /\ UNCHANGED <<gateVars, hookVars, restVars>>
    /\ called' = [called EXCEPT ![t] = @ \cup {"context"}]
    /\ NoCallEnded
    /\ pc[t] = "rag"
    /\ \/ ExceptClause(t, Processed(t), "rag")
       \/ /\ pc' = [pc EXCEPT ![t] = "decide"]
          /\ UNCHANGED <<fileVars, saves, ret, exc, summaries>>
    /\ UNCHANGED <<cacheVars, kind, upd, loaded, todo, pending,
                   successful, acts, tasks, decided>>

(***************************************************************************)
(* llm.process_thoughts (run() lines 78-83, process_update lines 113-118). *)
(* The call raises (llm_service lines 123-138, the preparation of the      *)
(* prompt, are outside its try), or returns the empty list (the model gave *)
(* no intent, or the inference call or the parsing raised and lines        *)
(* 151-153 absorbed the exception), or returns intents.                    *)
(* With intents _execute_notion_actions builds the store calls (lines      *)
(* 273-296) and awaits them; with none, or with no complete intent, the    *)
(* persist step follows without an await in between.                       *)
(***************************************************************************)
Decide(t) ==
    /\ UNCHANGED <<gateVars, hookVars, restVars>>
    /\ NoCallEnded
    /\ pc[t] = "decide"
    /\ decided' = [decided EXCEPT ![t] = successful[t]]
    /\ \/ /\ ExceptClause(t, Processed(t), "decide")
          /\ called' = [called EXCEPT ![t] = @ \cup {"decide"}]
          /\ UNCHANGED <<acts, tasks>>
       \/ \E e \in {"none", "inference"} :
            /\ SaveAndFinish(t, PersistSet(loaded[t], successful[t]),
                             Processed(t), e)
            /\ called' = [called EXCEPT ![t] = @ \cup {"decide"}]
            /\ UNCHANGED <<acts, tasks>>
       \/ \E actions \in ActionLists :
            /\ acts' = [acts EXCEPT ![t] = actions]
            /\ IF SubmittedTasks(actions) = <<>>
               THEN /\ SaveAndFinish(t, PersistSet(loaded[t], successful[t]),
                                     Processed(t), "none")
                    /\ called' = [called EXCEPT ![t] = @ \cup {"decide"}]
                    /\ UNCHANGED tasks
               ELSE /\ tasks' = [tasks EXCEPT ![t] = SubmittedTasks(actions)]
                    /\ called' = [called EXCEPT
                                     ![t] = @ \cup {"decide", "execute"}]
                    /\ pc' = [pc EXCEPT ![t] = "execute"]
                    /\ UNCHANGED <<fileVars, saves, ret, exc, summaries>>
    /\ UNCHANGED <<cacheVars, kind, upd, loaded, todo, pending,
                   successful>>

(***************************************************************************)
(* One store call (notion.create_page, update_page, archive_page) returns  *)
(* or raises.                                                              *)
(***************************************************************************)
StoreCallEnds(t, i) ==
    /\ UNCHANGED <<gateVars, hookVars, restVars, called>>
    /\ NoCallEnded
    /\ pc[t] = "execute"
    /\ i \in 1..Len(tasks[t])
    /\ tasks[t][i].st = "inflight"
    /\ \E outcome \in {"ok", "failed"} :
         tasks' = [tasks EXCEPT ![t][i].st = outcome]
    /\ UNCHANGED <<fileVars, cacheVars, kind, pc, upd, loaded, todo,
                   pending, successful, acts, saves, decided, ret, exc, summaries>>

(***************************************************************************)
(* _execute_notion_actions lines 297-307 after gather has returned, then   *)
(* _persist_successful_updates (run() line 83, process_update line 118).   *)
(***************************************************************************)
ExecuteGather(t) ==
    /\ UNCHANGED <<gateVars, hookVars, restVars, called>>
    /\ NoCallEnded
    /\ pc[t] = "execute"
    /\ GatherReturned(tasks[t])
    /\ SaveAndFinish(t, PersistSet(loaded[t], successful[t]), Processed(t),
                     "none")
    /\ UNCHANGED <<cacheVars, kind, upd, loaded, todo, pending,
                   successful, acts, tasks, decided>>

(***************************************************************************)
(* The call has ended; its locals are dropped.                             *)
(***************************************************************************)
ReturnLocals(t) ==
    /\ pc[t] = "done"
    /\ kind' = [kind EXCEPT ![t] = "none"]
    /\ pc' = [pc EXCEPT ![t] = "idle"]
    /\ upd' = [upd EXCEPT ![t] = 0]
    /\ loaded' = [loaded EXCEPT ![t] = {}]
    /\ todo' = [todo EXCEPT ![t] = {}]
    /\ pending' = [pending EXCEPT ![t] = {}]
    /\ successful' = [successful EXCEPT ![t] = {}]
    /\ acts' = [acts EXCEPT ![t] = <<>>]
    /\ tasks' = [tasks EXCEPT ![t] = <<>>]
    /\ saves' = [saves EXCEPT ![t] = <<>>]
    /\ decided' = [decided EXCEPT ![t] = {}]
    /\ ret' = [ret EXCEPT ![t] = "none"]
    /\ exc' = [exc EXCEPT ![t] = "none"]
    /\ summaries' = [summaries EXCEPT ![t] = 0]
    /\ called' = [called EXCEPT ![t] = {}]

Return(t) ==
    /\ UNCHANGED <<gateVars, hookVars, restVars>>
    /\ ReturnLocals(t)
    /\ UNCHANGED <<fileVars, cacheVars>>

Next ==
    \/ \E t \in Tasks : RunStart(t)
    \/ \E t \in Tasks : RunFetch(t)
    \/ \E t \in Tasks, u \in Ids : ExtractOne(t, u)
    \/ \E t \in Tasks : ExtractGather(t)
    \/ \E u \in Ids : Deliver(u)
    \/ \E t \in Tasks : PushStart(t)
    \/ \E t \in Tasks : SchemaAndIndex(t)
    \/ \E t \in Tasks : RagContext(t)
    \/ \E t \in Tasks : Decide(t)
    \/ \E t \in Tasks, i \in 1..MaxActions : StoreCallEnds(t, i)
    \/ \E t \in Tasks : ExecuteGather(t)
    \/ \E t \in Tasks : Return(t)

Spec == Init /\ [][Next]_vars

(***************************************************************************)
(* The admission controller of the transcription collaborator.             *)
(*                                                                         *)
(* _acquire_gladia_transcription_slot, lines 189-190: while the head of    *)
(* the deque is older than the window, drop it.                            *)
(***************************************************************************)
\* a deque that keeps every timestamp
NeverPruned(q, window_start) == q

RECURSIVE Pruned(_, _)
Pruned(q, window_start) ==
    IF q # <<>> /\ Head(q) < window_start
    THEN Pruned(Tail(q), window_start)
    ELSE q

\* a check that admits one caller beyond the limit
HasFreeSlotInclusive(q, max_requests) == Len(q) <= max_requests

\* line 191
HasFreeSlot(q, max_requests) == Len(q) < max_requests

MaxOf(a, b) == IF a >= b THEN a ELSE b

\* a wait that looks at the cooldown only
WaitCooldownOnly(q, t) == cooldown

\* lines 194-200
WaitDuration(q, t) == MaxOf(MaxOf(Head(q) + W - t, cooldown), 0)

\* a return that records the time of the call although the rate gate is off
StampedWhenOff(q, t) == Append(q, t)

\* lines 179-181: the return leaves the timestamps as they are
UnstampedWhenOff(q, t) == q

\* lines 179-181
RateGateOff(max_requests) == max_requests <= 0

(***************************************************************************)
(* _process_single_update line 219 and _acquire_gladia_transcription_slot, *)
(* lines 179-206: one pass of the loop, entered by a worker that calls or  *)
(* by one whose sleep is over.  The rate lock is free whenever a task      *)
(* reaches it, since the block it guards (lines 187-199) has no await: the *)
(* pass is one step.  With R <= 0 the rate gate is off (line 180).         *)
(***************************************************************************)
AcquireSlot(w) ==
    /\ \/ wpc[w] = "idle"
       \/ wpc[w] = "sleep" /\ now >= wake[w]
    /\ LET asking == IF wpc[w] = "idle" /\ now = 0 THEN asked \cup {w}
                                                   ELSE asked
           granted == [got EXCEPT ![w] = IF w \in asking THEN now ELSE @]
       IN  IF RateGateOff(R)
           THEN gate' = [gate EXCEPT
                    !.asked = asking,
                    !.wpc[w] = "gate",
                    !.got = granted,
                    !.stamps = UnstampedWhenOff(stamps, now)]
           ELSE IF HasFreeSlot(Pruned(stamps, now - W), R)
           THEN gate' = [gate EXCEPT
                    !.asked = asking,
                    !.stamps = Append(Pruned(stamps, now - W), now),
                    !.wpc[w] = "gate",
                    !.got = granted,
                    !.wake[w] = 0]
           ELSE gate' = [gate EXCEPT
                    !.asked = asking,
                    !.stamps = Pruned(stamps, now - W),
                    !.wpc[w] = "sleep",
                    !.wake[w] =
                        now + WaitDuration(Pruned(stamps, now - W), now)]
    /\ UNCHANGED <<fileVars, cacheVars, taskVars, hookVars, restVars>>

\* a semaphore that never makes a caller wait
PermitAlwaysFree(value) == TRUE

\* asyncio.Semaphore: acquire goes through while the value is positive
PermitFree(value) == value > 0

\* a release that is skipped when the gated call raised
PermitsAfterExitLeaky(value, outcome) ==
    IF outcome = "raised" THEN value ELSE value + 1

\* lines 221-231: leaving the async with block releases the permit, however
\* the block is left
PermitsAfterExit(value, outcome) == value + 1

\* how a gated call ends: a transcript, an empty transcript, or an exception
\* of the download or the transcription (caught at line 229)
Outcomes == {"text", "empty", "raised"}

(***************************************************************************)
(* _process_single_update, line 221: the worker takes a permit of          *)
(* gladia_semaphore and enters the gated call (download, transcription).   *)
(* Which of several waiting workers gets a permit does not matter to the   *)
(* times at which calls start.                                             *)
(***************************************************************************)
EnterCall(w) ==
    /\ wpc[w] = "gate"
    /\ PermitFree(permits)
    /\ gate' = [gate EXCEPT !.permits = permits - 1,
                            !.wpc[w] = "call",
                            !.starts = Append(starts, now)]
    /\ UNCHANGED <<fileVars, cacheVars, taskVars, hookVars, restVars>>

(***************************************************************************)
(* _process_single_update, lines 224-231: the gated call returns or raises *)
(* and the permit is released.                                             *)
(***************************************************************************)
ExitCall(w) ==
    /\ wpc[w] = "call"
    /\ \E outcome \in Outcomes :
         gate' = [gate EXCEPT !.permits = PermitsAfterExit(permits, outcome),
                              !.ended = outcome,
                              !.wpc[w] = "finished"]
    /\ UNCHANGED <<fileVars, cacheVars, taskVars, hookVars, restVars>>

(***************************************************************************)
(* One second passes.  A worker that finds a free permit at line 221 does  *)
(* not suspend: no time passes between its admission and its call.         *)
(***************************************************************************)
Tick ==
    /\ now < MaxTime
    /\ ~ \E w \in Workers : wpc[w] = "gate" /\ PermitFree(permits)
    /\ gate' = [gate EXCEPT !.now = now + 1]
    /\ UNCHANGED <<fileVars, cacheVars, taskVars, hookVars, restVars>>

NextGate ==
    \/ \E w \in Workers : AcquireSlot(w)
    \/ \E w \in Workers : EnterCall(w)
    \/ \E w \in Workers : ExitCall(w)
    \/ Tick

SpecGate == InitGate /\ [][NextGate]_vars

(***************************************************************************)
(* The admission controller with the rate gate on, for as long as it takes *)
(* every caller to be let through.  Workers call at any time up to         *)
(* MaxTime.  asyncio.sleep returns when its time is over: a second does    *)
(* not pass while a sleeper whose time is over has not made its pass of    *)
(* the loop at this second (a pass that refuses it again with a wait of    *)
(* zero leaves the state as it is, and then the clock goes on).            *)
(***************************************************************************)
\* the latest time by which Cardinality(Workers) callers are through: a
\* caller refused at time t finds a slot at its second pass after the
\* oldest timestamp has left the window
LiveTime == MaxTime + Cardinality(Workers) * (2 * MaxW + MaxCooldown + 1)

Due(w) == wpc[w] = "sleep" /\ now >= wake[w]

LiveAcquire(w) ==
    /\ wpc[w] = "idle" => now <= MaxTime
    /\ AcquireSlot(w)

LiveTick ==
    /\ now < LiveTime
    /\ \A w \in Workers : Due(w) => ~ENABLED <<AcquireSlot(w)>>_vars
    /\ gate' = [gate EXCEPT !.now = now + 1]
    /\ UNCHANGED <<fileVars, cacheVars, taskVars, hookVars, restVars>>

InitGateLive ==
    /\ PipelineInit
    /\ HookInit(1, TRUE, Secret)
    /\ \E r \in 1..MaxR, w \in 1..MaxW, c \in 0..MaxCooldown :
         GateInit(1, r, w, c)
    /\ RestInit

NextGateLive ==
    \/ \E w \in Workers : LiveAcquire(w)
    \/ LiveTick

\* time advances, and the event loop runs every task that can run
SpecGateLive ==
    /\ InitGateLive
    /\ [][NextGateLive]_vars
    /\ WF_vars(LiveTick)
    /\ \A w \in Workers : WF_vars(LiveAcquire(w))

(***************************************************************************)
(* The webhook endpoint.                                                   *)
(*                                                                         *)
(* A request as telegram_webhook reads it: the secret header, the headers  *)
(* cf-connecting-ip and x-real-ip and the address of the peer ("" when     *)
(* absent) and whether the content type names application/json; then,     *)
(* for a request that got as far as line 122, what the body parses to: no  *)
(* JSON, JSON that is no update, or an update.                             *)
(***************************************************************************)

Bodies ==
    {[parse |-> "garbage", id |-> 0], [parse |-> "noupdate", id |-> 0]}
        \cup {[parse |-> "update", id |-> u] : u \in HookIds}

Requests ==
    [secret : {"", Secret, "wrong"},
     cf : {"", "149.154.160.1"}, xreal : {"", "not-an-ip"},
     peer : {"", "10.0.0.1"},
     json : BOOLEAN]

\* _extract_client_ip, lines 165-171: the first header that has a value,
\* else the address of the peer
_extract_client_ip(req) ==
    IF req.cf # "" THEN req.cf
    ELSE IF req.xreal # "" THEN req.xreal
    ELSE req.peer

\* settings.TELEGRAM_ALLOWED_CIDRS as line 25 reads it: each network the set
\* of its addresses
allowed_networks == {{"149.154.160.1", "149.154.160.2"}, {"91.108.4.1"}}

\* an address check that lets every caller in
IsIpAllowedAlways(ip_str) == TRUE

\* _is_ip_allowed, lines 182-187
_is_ip_allowed(ip_str) ==
    IF ip_str = "not-an-ip"
    THEN FALSE
    ELSE \E network \in allowed_networks : ip_str \in network

(***************************************************************************)
(* telegram_webhook, lines 76-120: the status the checks of the handler,   *)
(* the secret, the address and the content type raise, 200 when the        *)
(* request passes them all.                                                *)
(***************************************************************************)
HeaderStatus(req) ==
    IF ~update_handler THEN 503
    ELSE IF webhook_secret = "none" THEN 503
    ELSE IF req.secret = "" THEN 403
    ELSE IF req.secret # webhook_secret THEN 403
    ELSE IF _extract_client_ip(req) = "" THEN 403
    ELSE IF ~_is_ip_allowed(_extract_client_ip(req)) THEN 403
    ELSE IF ~req.json THEN 415
    ELSE 200

\* lines 121-134: the status of a body that yields no update
BodyStatus(body) == IF body.parse = "update" THEN 200 ELSE 400

\* a dispatch that does not look at the answer of the cache
SchedulesAlways(is_new) == TRUE

\* lines 135-138: create_task is reached when _mark_update_if_new said True
Schedules(is_new) == is_new

\* the record of an answered request: its secret header, the address it was
\* taken to come from, its body, the status of the reply, the answer of the
\* cache, whether a task was created, the cache before the request and the
\* number of handler tasks alive at the reply; again tells that the cache
\* answered True to it after answering True, for the same identifier, to a
\* request that was in progress together with it
Answer(secret, ip, body, status, fresh, started, alive, again) ==
    [kind |-> "answered", secret |-> secret, ip |-> ip, body |-> body,
     status |-> status, fresh |-> fresh, started |-> started,
     before |-> cacheQ, alive |-> alive, again |-> again]

\* what the reply to a request refused at lines 76-120 leaves on record
NoBody == [parse |-> "unread", id |-> 0]

(***************************************************************************)
(* register_update_handler, lines 46-52: the handler is stored, then a     *)
(* missing secret raises and the secret is stored otherwise.               *)
(***************************************************************************)
Register(secret_token) ==
    /\ ~update_handler \/ webhook_secret = "none"
    /\ hook' = [hook EXCEPT
           !.update_handler = TRUE,
           !.webhook_secret =
               IF secret_token = "none" THEN webhook_secret ELSE secret_token]
    /\ UNCHANGED <<fileVars, cacheVars, taskVars, gateVars, restVars>>

(***************************************************************************)
(* telegram_webhook, lines 76-122: a request arrives.  One that fails a    *)
(* check is answered with the status of the check; one that passes is      *)
(* suspended at the await of its body.                                     *)
(***************************************************************************)
Receive(req) ==
    /\ received < MaxRequests
    /\ IF HeaderStatus(req) # 200
       THEN hook' = [hook EXCEPT
                !.received = received + 1,
                !.last = Answer(req.secret, _extract_client_ip(req), NoBody,
                                HeaderStatus(req), FALSE, FALSE, running,
                                FALSE)]
       ELSE /\ Len(parsing) < MaxInFlight
            /\ \E body \in Bodies :
                   hook' = [hook EXCEPT
                       !.received = received + 1,
                       !.parsing = Append(parsing,
                                          [ip |-> _extract_client_ip(req),
                                           body |-> body,
                                           raced |-> FALSE])]
    /\ UNCHANGED <<fileVars, cacheVars, taskVars, gateVars, restVars>>

(***************************************************************************)
(* telegram_webhook, lines 122-139, for the i-th suspended request: the    *)
(* body is parsed and deserialised (400 when that fails), then             *)
(* _mark_update_if_new is awaited.  Its lock is free whenever a request    *)
(* reaches it (lines 199-207 hold no await), and no await lies between its *)
(* answer and create_task: the rest of the handler is one step.            *)
(***************************************************************************)
Complete(i) ==
    /\ i \in 1..Len(parsing)
    /\ LET req == parsing[i]
           fresh == MarkIsNew(req.body.id)
           others == SubSeq(parsing, 1, i - 1)
                         \o SubSeq(parsing, i + 1, Len(parsing))
           alive == IF Schedules(fresh) THEN running + 1 ELSE running
       IN  IF BodyStatus(req.body) # 200
           THEN /\ hook' = [hook EXCEPT
                       !.last = Answer(webhook_secret, req.ip, req.body,
                                       BodyStatus(req.body), FALSE, FALSE,
                                       running, FALSE),
                       !.parsing = others]
                /\ UNCHANGED cacheVars
           ELSE /\ IF fresh
                   THEN MarkInsert(req.body.id)
                   ELSE UNCHANGED cacheVars
                /\ hook' = [hook EXCEPT
                       !.order = IF fresh THEN Append(order, req.body.id)
                                          ELSE order,
                       !.parsing =
                           IF fresh
                           THEN [j \in 1..Len(others) |->
                                    IF others[j].body = req.body
                                    THEN [others[j] EXCEPT !.raced = TRUE]
                                    ELSE others[j]]
                           ELSE others,
                       !.running = alive,
                       !.last = Answer(webhook_secret, req.ip, req.body, 200,
                                       fresh, Schedules(fresh), alive,
                                       req.raced /\ fresh)]
    /\ UNCHANGED <<fileVars, taskVars, gateVars, restVars>>

(***************************************************************************)
(* _dispatch_update, lines 148-154: the handler returns, or raises and the *)
(* exception is logged; the task ends.                                     *)
(***************************************************************************)
HandlerEnds ==
    /\ running > 0
    /\ hook' = [hook EXCEPT !.running = running - 1]
    /\ UNCHANGED <<fileVars, cacheVars, taskVars, gateVars, restVars>>

NextHook ==
    \/ \E secret_token \in {"none", Secret} : Register(secret_token)
    \/ \E req \in Requests : Receive(req)
    \/ \E i \in 1..MaxInFlight : Complete(i)
    \/ HandlerEnds

SpecHook == InitHook /\ [][NextHook]_vars


(***************************************************************************)
(* The idempotency ledger on disk (state_manager.py).                      *)
(*                                                                         *)
(* get_processed_update_ids, lines 40-57, on the file d whose directory    *)
(* exists: open raises FileNotFoundError (caught, line 42) or              *)
(* PermissionError (caught, line 52); json.load raises UnicodeDecodeError  *)
(* on bytes that are no UTF-8 text (no clause catches it) and              *)
(* JSONDecodeError on text that is no JSON document (caught, line 47);     *)
(* else the set of the list is returned (line 41).                         *)
(***************************************************************************)
Returned(ids) == [raised |-> FALSE, ids |-> ids]

Raised == [raised |-> TRUE, ids |-> {}]

LoadResult(d) ==
    IF d.state = "missing" THEN Returned({})
    ELSE IF ~d.permitted THEN Returned({})
    ELSE IF d.state = "binary" THEN Raised
    ELSE IF ~d.closed THEN Returned({})
    ELSE Returned(ElementsOf(d.items))

\* list(processed_ids): the lists that hold each element of the set once
Orderings(S) ==
    {q \in SeqsUpTo(S, Cardinality(S)) :
        Len(q) = Cardinality(S) /\ ElementsOf(q) = S}

\* a dump of the list as it comes
Unsorted(q) == q

\* sorted(...), line 71
RECURSIVE Sorted(_)
Sorted(q) ==
    IF q = <<>>
    THEN <<>>
    ELSE LET m == CHOOSE x \in ElementsOf(q) : \A y \in ElementsOf(q) : x <= y
         IN  <<m>> \o Sorted(SelectSeq(q, LAMBDA x : x # m))

(***************************************************************************)
(* A call of get_processed_update_ids: _ensure_state_path (line 38, not    *)
(* inside the try) raises when the directory cannot be made.               *)
(***************************************************************************)
Load ==
    /\ \E mkdir \in BOOLEAN :
         fop' = [op |-> "load", before |-> disk, arg |-> <<>>, mkdir |-> mkdir,
                 result |-> IF mkdir THEN LoadResult(disk) ELSE Raised]
    /\ UNCHANGED disk
    /\ UNCHANGED <<fileVars, cacheVars, taskVars, gateVars, hookVars,
                   startupVars, exec, rag>>

(***************************************************************************)
(* save_processed_update_ids, lines 65-83, on the file d, with q the list  *)
(* of the set: the file the call leaves and whether it raised.             *)
(* open(.., 'w') raises PermissionError, or creates the file or cuts it to *)
(* length zero; then json.dump writes the sorted list, or only its first k *)
(* items when the write fails (OSError, lines 78-83).                      *)
(***************************************************************************)
Opened ==
    [state |-> "text", items |-> <<>>, closed |-> FALSE, permitted |-> TRUE]

SaveOutcomes(d, q) ==
    IF d.state # "missing" /\ ~d.permitted
    THEN {[disk |-> d, raised |-> TRUE]}
    ELSE {[disk |-> [Opened EXCEPT !.items = Sorted(q), !.closed = TRUE],
           raised |-> FALSE]}
         \cup {[disk |-> [Opened EXCEPT !.items = SubSeq(Sorted(q), 1, k)],
                raised |-> TRUE] : k \in 0..Len(q)}

\* the call, whose line 65 raises when the directory cannot be made
SaveCall(op, q) ==
    \E mkdir \in BOOLEAN :
        \E out \in IF mkdir THEN SaveOutcomes(disk, q)
                            ELSE {[disk |-> disk, raised |-> TRUE]} :
            /\ disk' = out.disk
            /\ fop' = [op |-> op, before |-> disk, arg |-> q, mkdir |-> mkdir,
                       result |-> IF out.raised THEN Raised ELSE Returned({})]

\* save_processed_update_ids(ids), for every order in which the set may
\* list its elements
Save ==
    /\ \E ids \in SUBSET StoredIds : \E q \in Orderings(ids) :
         SaveCall("save", q)
    /\ UNCHANGED <<fileVars, cacheVars, taskVars, gateVars, hookVars,
                   startupVars, exec, rag>>

\* save_processed_update_ids(get_processed_update_ids())
Resave ==
    /\ ~LoadResult(disk).raised
    /\ \E q \in Orderings(LoadResult(disk).ids) : SaveCall("resave", q)
    /\ UNCHANGED <<fileVars, cacheVars, taskVars, gateVars, hookVars,
                   startupVars, exec, rag>>

(***************************************************************************)
(* What happens to the file outside the program: it is removed, its mode   *)
(* is changed, or its bytes are damaged.                                   *)
(***************************************************************************)
Damage ==
    /\ \/ disk.state # "missing" /\ disk' = NoFile
       \/ disk.state # "missing" /\ disk' = [disk EXCEPT !.permitted = ~@]
       \/ disk.state = "text" /\ disk' = [disk EXCEPT !.state = "binary",
                                                     !.items = <<>>,
                                                     !.closed = FALSE]
    /\ fop' = NoCall
    /\ UNCHANGED <<fileVars, cacheVars, taskVars, gateVars, hookVars,
                   startupVars, exec, rag>>

NextFile ==
    \/ Load
    \/ Save
    \/ Resave
    \/ Damage

SpecFile == Init /\ [][NextFile]_vars

(***************************************************************************)
(* Startup catch-up (bootstrap.py) against the update source.              *)
(*                                                                         *)
(* The source is the Bot API behind TelegramService.get_updates, whose     *)
(* code is not in this repository.  In mode "log" it behaves as the        *)
(* docstring of get_updates (telegram_service.py line 35) and the Bot API  *)
(* say: offset is the identifier of the first update returned, and an      *)
(* update below the offset of a call is confirmed and not held any more.   *)
(* In mode "any" nothing is assumed: a call returns any of the updates     *)
(* held and confirms none.                                                 *)
(***************************************************************************)
LogIds == 1..MaxLogId

\* what a call get_updates(offset) may return
Returnable(offset) ==
    IF source.mode = "log"
    THEN {{u \in source.held : u >= offset}}
    ELSE SUBSET source.held

\* what the source holds after the call
HeldAfter(offset) ==
    IF source.mode = "log"
    THEN {u \in source.held : u >= offset}
    ELSE source.held

\* the identifiers up to the largest of the ledger that are not in it
BelowMaxNotIn(processed_ids) ==
    IF processed_ids = {}
    THEN {}
    ELSE {u \in 1..Max(processed_ids) : u \notin processed_ids}

\* a further update reaches the source
Arrive ==
    /\ source.arrived < MaxLogId
    /\ source' = [source EXCEPT !.arrived = @ + 1,
                                !.held = @ \cup {source.arrived + 1}]
    /\ UNCHANGED <<fileVars, cacheVars, taskVars, gateVars, hookVars,
                   diskVars, boot, exec, rag>>

\* _prepare_webhook_mode, line 48: delete_webhook returns or raises
DeleteWebhook ==
    /\ boot.pc = "start"
    /\ \E raised \in BOOLEAN :
         boot' = [boot EXCEPT !.pc = IF raised THEN "failed" ELSE "loop"]
    /\ UNCHANGED <<fileVars, cacheVars, taskVars, gateVars, hookVars,
                   diskVars, source, exec, rag>>

\* a loop that makes one pass more
OnePassMore(passes, max_runs) == passes <= max_runs

\* _run_startup_polling, lines 67 and 71: a pass follows the passes made
MorePasses(passes, max_runs) == passes < max_runs

(***************************************************************************)
(* _run_startup_polling, lines 66-73 and 77-79: the next pass calls        *)
(* processor.run(), or the passes are used up (none, when max_runs is 0).  *)
(***************************************************************************)
StartPass ==
    /\ boot.pc = "loop"
    /\ pc[Main] = "idle"
    /\ boot' = [boot EXCEPT !.pc = IF MorePasses(Len(boot.results), boot.max_runs)
                                   THEN "call" ELSE "ended"]
    /\ UNCHANGED <<fileVars, cacheVars, taskVars, gateVars, hookVars,
                   diskVars, source, exec, rag>>

\* processor.run() begins, line 73
PassRunStart ==
    /\ boot.pc = "call"
    /\ RunStart(Main)

(***************************************************************************)
(* _fetch_and_filter_updates, lines 133-146, with the source: the offset   *)
(* of line 133 is handed to get_updates.  History: the offset, what the    *)
(* call returned (fetched), the identifiers below                          *)
(* the largest of the ledger and not in it (lost); of the updates the      *)
(* pass before fetched and left out of the ledger, those the source held   *)
(* at this call and did not return (skipped).                              *)
(***************************************************************************)
PassFetch ==
    /\ boot.pc = "call"
    /\ pc[Main] = "fetch"
    /\ \/ /\ ExceptClause(Main, "false", "fetch")
          /\ UNCHANGED <<todo, pending, successful, source>>
       \/ \E updates \in Returnable(FetchOffset(loaded[Main])) :
            /\ FilterAndExtract(Main, updates)
            /\ source' = [source EXCEPT
                 !.held = HeldAfter(FetchOffset(loaded[Main])),
                 !.offset = FetchOffset(loaded[Main]),
                 !.fetched = updates,
                 !.lost = @ \cup BelowMaxNotIn(loaded[Main]),
                 !.skipped = {u \in source.retry \cap source.held :
                                 u \notin updates},
                 !.retry = {}]
    /\ UNCHANGED <<cacheVars, kind, upd, loaded, acts, tasks, decided,
                   called>>
    /\ UNCHANGED <<gateVars, hookVars, diskVars, boot, exec, rag>>

(***************************************************************************)
(* processor.run() has returned has_pending_updates, lines 73-76: the loop *)
(* goes on when it is true and is left when it is not.  History: the       *)
(* updates this pass has fetched and left out of the ledger (retry).       *)
(***************************************************************************)
EndPass ==
    /\ boot.pc = "call"
    /\ pc[Main] = "done"
    /\ boot' = [boot EXCEPT !.results = Append(@, ret[Main]),
                            !.pc = IF ret[Main] = "true" THEN "loop"
                                                         ELSE "ended"]
    /\ source' = [source EXCEPT
         !.retry = {u \in todo[Main] : u \notin get_processed_update_ids},
         !.offset = 0,
         !.fetched = {},
         !.skipped = {}]
    /\ ReturnLocals(Main)
    /\ UNCHANGED <<fileVars, cacheVars, gateVars, hookVars, diskVars, exec,
                   rag>>

\* _prepare_webhook_mode, lines 50-58: set_webhook succeeds, or startup
\* ends with an exception
SetWebhook ==
    /\ boot.pc = "ended"
    /\ \E success \in BOOLEAN :
         boot' = [boot EXCEPT !.pc = IF success THEN "serving" ELSE "failed",
                              !.webhook = success]
    /\ UNCHANGED <<fileVars, cacheVars, taskVars, gateVars, hookVars,
                   diskVars, source, exec, rag>>

InitLog ==
    /\ PipelineInit
    /\ GateInit(1, 0, 1, 0)
    /\ HookInit(1, TRUE, Secret)
    /\ DiskInit
    /\ exec = NoExec
    /\ rag = NoRag
    /\ \E mode \in {"log", "any"}, n \in 0..MaxLogId : SourceInit(mode, n)
    /\ \E max_runs \in 0..MaxRuns : BootInit(max_runs)

NextLog ==
    \/ Arrive
    \/ DeleteWebhook
    \/ StartPass
    \/ PassRunStart
    \/ PassFetch
    \/ \E u \in LogIds : ExtractOne(Main, u)
    \/ ExtractGather(Main)
    \/ SchemaAndIndex(Main)
    \/ RagContext(Main)
    \/ Decide(Main)
    \/ \E i \in 1..MaxActions : StoreCallEnds(Main, i)
    \/ ExecuteGather(Main)
    \/ EndPass
    \/ SetWebhook

SpecLog == InitLog /\ [][NextLog]_vars

(***************************************************************************)
(* _execute_notion_actions, lines 269-307, for any list of intents.  The   *)
(* intents carry their place in the list (pos), so that the store calls    *)
(* can be told apart.                                                      *)
(***************************************************************************)
Tagged(actions) ==
    [i \in 1..Len(actions) |->
        [action |-> actions[i].action, page_id |-> actions[i].page_id,
         data |-> actions[i].data, pos |-> i]]

\* lines 273-291: the coroutines appended to tasks, in order; gather (line
\* 297) schedules them in that order and awaits them all
DispatchedCalls(actions) ==
    LET kept == SelectSeq(OrderedActions(Tagged(actions)), IsSubmittable)
    IN  [i \in 1..Len(kept) |->
            [op |-> kept[i].action, pos |-> kept[i].pos, st |-> "inflight"]]

\* lines 273-297: the calls are built and handed to gather, or the method
\* returns when there is none (lines 294-296)
ExecDispatch ==
    /\ exec.pc = "called"
    /\ exec' = [exec EXCEPT
         !.calls = DispatchedCalls(exec.actions),
         !.summary = Len(DispatchedCalls(exec.actions)),
         !.pc = IF DispatchedCalls(exec.actions) = <<>> THEN "returned"
                                                        ELSE "gather"]
    /\ UNCHANGED <<fileVars, cacheVars, taskVars, gateVars, hookVars,
                   diskVars, startupVars, rag>>

\* one store call returns or raises, whatever the state of the others
ExecCallEnds(i) ==
    /\ exec.pc = "gather"
    /\ i \in 1..Len(exec.calls)
    /\ exec.calls[i].st = "inflight"
    /\ \E outcome \in {"ok", "failed"} :
         exec' = [exec EXCEPT !.calls[i].st = outcome]
    /\ UNCHANGED <<fileVars, cacheVars, taskVars, gateVars, hookVars,
                   diskVars, startupVars, rag>>

\* lines 298-301: the results that are exceptions
Failures(calls) ==
    Cardinality({i \in 1..Len(calls) : calls[i].st = "failed"})

\* lines 297-307: gather returns once every call has ended; the summary is
\* written again only if a call failed (line 306), from the local
\* executed_count
ExecGather ==
    /\ exec.pc = "gather"
    /\ GatherReturned(exec.calls)
    /\ exec' = [exec EXCEPT
         !.pc = "returned",
         !.summary = IF Failures(exec.calls) > 0
                     THEN MaxOf(Len(exec.calls) - Failures(exec.calls), 0)
                     ELSE @]
    /\ UNCHANGED <<fileVars, cacheVars, taskVars, gateVars, hookVars,
                   diskVars, startupVars, rag>>

(***************************************************************************)
(* While the call is suspended at gather (line 297), another call of       *)
(* process_update or run() on the same processor begins: its               *)
(* _reset_summary (lines 62 and 102) replaces self.summary.                *)
(***************************************************************************)
OtherCallResets ==
    /\ exec.pc = "gather"
    /\ exec.summary # 0
    /\ exec' = [exec EXCEPT !.summary = 0]
    /\ UNCHANGED <<fileVars, cacheVars, taskVars, gateVars, hookVars,
                   diskVars, startupVars, rag>>

InitExec ==
    /\ PipelineInit
    /\ GateInit(1, 0, 1, 0)
    /\ HookInit(1, TRUE, Secret)
    /\ DiskInit
    /\ SourceInit("log", 0)
    /\ BootInit(0)
    /\ rag = NoRag
    /\ \E actions \in SeqsUpTo(Dicts, MaxIntents) :
         exec = [NoExec EXCEPT !.actions = actions]

NextExec ==
    \/ ExecDispatch
    \/ \E i \in 1..MaxIntents : ExecCallEnds(i)
    \/ OtherCallResets
    \/ ExecGather

SpecExec == InitExec /\ [][NextExec]_vars

(***************************************************************************)
(* Context assembly: _get_rag_context, lines 235-267, as a function of     *)
(* what structure_thoughts_in_batch returns and of what the vector search  *)
(* returns for each thought.                                               *)
(*                                                                         *)
(* A structured thought is an element of the JSON list the structuring     *)
(* model returned (llm_service.py lines 96-99): a dictionary with a        *)
(* description ("described"), a dictionary without one ("undescribed"),    *)
(* or no dictionary ("scalar").  hits is what vector_service.search        *)
(* returns for its description: the page_id of each document, "none" for a *)
(* document whose metadata has none.  A document is told apart from the    *)
(* others by its place: thought i, hit j.                                  *)
(***************************************************************************)
Pages == {"p1", "p2"}

HitLists == SeqsUpTo(Pages \cup {"none"}, MaxHits)

StructuredThoughts ==
    [kind : {"described"}, hits : HitLists]
        \cup [kind : {"undescribed", "scalar"}, hits : {<<>>}]

\* the pieces of the string returned
Lit(text) == [k |-> "lit", t |-> text, at |-> <<>>]

IdOf(doc) == [k |-> "id", t |-> doc.page_id, at |-> <<>>]

ContentOf(doc) == [k |-> "content", t |-> "page_content", at |-> doc.at]

\* line 241
StructuringFailed == <<Lit("Thought structuring failed.")>>

\* line 264
NoRelevantDocuments == <<Lit("No relevant documents found.")>>

\* line 250: the documents the search returns for thought i
SearchResults(structured, i) ==
    [j \in 1..Len(structured[i].hits) |->
        [page_id |-> structured[i].hits[j], at |-> <<i, j>>]]

\* a test that takes every document that has a page_id
HasPageId(page_id, seen) == page_id # "none"

\* line 260
IsNewPage(page_id, seen) == page_id # "none" /\ page_id \notin seen

\* lines 258-262, for the documents of one search
RECURSIVE Merged(_, _)
Merged(docs, seen) ==
    IF docs = <<>>
    THEN <<>>
    ELSE IF IsNewPage(Head(docs).page_id, seen)
    THEN <<Head(docs)>> \o Merged(Tail(docs), seen \cup {Head(docs).page_id})
    ELSE Merged(Tail(docs), seen)

\* lines 245-262: the loop over the thoughts from thought i on, with the
\* page ids seen so far; a thought without description is skipped (lines
\* 247-249)
RECURSIVE Retrieved(_, _, _)
Retrieved(structured, i, seen) ==
    IF i > Len(structured)
    THEN <<>>
    ELSE IF structured[i].kind # "described"
    THEN Retrieved(structured, i + 1, seen)
    ELSE LET found == Merged(SearchResults(structured, i), seen)
         IN  found \o Retrieved(structured, i + 1,
                       seen \cup {found[j].page_id : j \in 1..Len(found)})

\* lines 265-267: "\n\n".join of one entry per document
RECURSIVE Joined(_)
Joined(docs) ==
    IF docs = <<>>
    THEN <<>>
    ELSE <<Lit("ID: "), IdOf(Head(docs)), Lit("\nContent: "),
           ContentOf(Head(docs))>>
         \o (IF Tail(docs) = <<>> THEN <<>> ELSE <<Lit("\n\n")>>)
         \o Joined(Tail(docs))

\* line 246: thought_obj.get raises for an element that is no dictionary
GetRaises(structured) ==
    \E i \in 1..Len(structured) : structured[i].kind = "scalar"

(***************************************************************************)
(* _get_rag_context returns (or an exception leaves it).                   *)
(***************************************************************************)
GetRagContext ==
    /\ rag.pc = "called"
    /\ rag' = IF rag.structured = <<>>
              THEN [rag EXCEPT !.pc = "returned", !.out = StructuringFailed]
              ELSE IF GetRaises(rag.structured)
              THEN [rag EXCEPT !.pc = "raised"]
              ELSE IF Retrieved(rag.structured, 1, {}) = <<>>
              THEN [rag EXCEPT !.pc = "returned", !.out = NoRelevantDocuments]
              ELSE [rag EXCEPT !.pc = "returned",
                               !.out = Joined(Retrieved(rag.structured, 1, {}))]
    /\ UNCHANGED <<fileVars, cacheVars, taskVars, gateVars, hookVars,
                   diskVars, startupVars, exec>>

InitRag ==
    /\ PipelineInit
    /\ GateInit(1, 0, 1, 0)
    /\ HookInit(1, TRUE, Secret)
    /\ DiskInit
    /\ SourceInit("log", 0)
    /\ BootInit(0)
    /\ exec = NoExec
    /\ \E structured \in SeqsUpTo(StructuredThoughts, MaxThoughts) :
         rag = [NoRag EXCEPT !.structured = structured, !.pc = "called"]

NextRag == GetRagContext

SpecRag == InitRag /\ [][NextRag]_vars

(***************************************************************************)
(*                            Properties                                   *)
(***************************************************************************)

\* what a run has handed to save_processed_update_ids, as one set
Written(t) == UNION {saves[t][i] : i \in 1..Len(saves[t])}

\* the run of task t got past process_thoughts and executed store calls
Executed(t) == decided[t] # {} /\ tasks[t] # <<>>

(***************************************************************************)
(* C1.  An update identifier that is in the ledger a run loads at its      *)
(* start is not extracted, not passed to the Decision stage and has no     *)
(* action executed for it by that run, on the batch pathway and on the     *)
(* push pathway, also when the source delivers the identifier again.       *)
(***************************************************************************)
C1_LedgerIdsAreSkipped ==
    \A t \in Tasks :
        /\ loaded[t] \cap (todo[t] \cup pending[t] \cup successful[t]
                               \cup decided[t]) = {}
        /\ (kind[t] = "push" /\ upd[t] \in loaded[t]) =>
               (todo[t] = {} /\ decided[t] = {} /\ tasks[t] = <<>>)

\* a batch run that loaded a ledger with identifiers in it is past its
\* filter and extracts other updates, while a push delivery of a ledger
\* identifier has ended
C1_Witness ==
    \E t1, t2 \in Tasks :
        /\ kind[t1] = "batch"
        /\ pc[t1] = "extract"
        /\ loaded[t1] # {}
        /\ todo[t1] # {}
        /\ kind[t2] = "push"
        /\ upd[t2] \in loaded[t2]
        /\ pc[t2] = "done"

(***************************************************************************)
(* C2.  No update identifier has its text handed to the Decision stage and *)
(* executed in more than one run.                                          *)
(***************************************************************************)
C2_ExecutedInOneRunOnly ==
    \A t1, t2 \in Tasks :
        (t1 # t2 /\ Executed(t1) /\ Executed(t2)) =>
            decided[t1] \cap decided[t2] = {}

C4_FailedIntentMarksNothing ==
    \A t \in Tasks :
        (pc[t] = "done" /\ \E i \in 1..Len(tasks[t]) : tasks[t][i].st = "failed")
            => Written(t) \cap todo[t] = {}

(***************************************************************************)
(* C5.  A run whose Decision stage returned no intent for a non-empty      *)
(* batch of thoughts adds no identifier of the batch to the ledger.        *)
(***************************************************************************)
C5_NoIntentMarksNothing ==
    \A t \in Tasks :
        (pc[t] = "done" /\ decided[t] # {} /\ acts[t] = <<>>
                        /\ exc[t] # "decide")
            => Written(t) \cap todo[t] = {}

(***************************************************************************)
(* C6.  A run in which the Decision stage raises after extraction          *)
(* succeeded for some updates catches the exception and still hands the    *)
(* extracted identifiers to the ledger.                                    *)
(***************************************************************************)
C6_RaiseStillPersists ==
    \A t \in Tasks :
        (pc[t] = "done" /\ exc[t] = "decide" /\ successful[t] # {}) =>
            /\ ret[t] # "raised"
            /\ successful[t] \subseteq Written(t)

(***************************************************************************)
(* C7.  A run in which the schema fetch, the structuring and retrieval     *)
(* step or the inference call raised lets no exception out of run() or     *)
(* process_update and writes nothing to the ledger.                        *)
(***************************************************************************)
C7_StageFailureLeavesLedger ==
    \A t \in Tasks :
        (pc[t] = "done" /\ exc[t] \in {"schema", "rag", "decide", "inference"}) =>
            /\ ret[t] # "raised"
            /\ saves[t] = <<>>

(***************************************************************************)
(* C8.  Whenever a run has handed a set to the ledger, every extraction    *)
(* worker of the run has returned, every complete intent has been          *)
(* submitted, every submitted store call has returned or raised, and the   *)
(* identifiers the set adds to the loaded ledger are extracted ones.       *)
(***************************************************************************)
C8_PersistAfterExtractionAndDispatch ==
    \A t \in Tasks :
        saves[t] # <<>> =>
            /\ pending[t] = {}
            /\ Len(tasks[t]) = Len(SubmittedTasks(acts[t]))
            /\ \A i \in 1..Len(tasks[t]) : tasks[t][i].st # "inflight"
            /\ Written(t) \ loaded[t] \subseteq successful[t]

\* a run that awaited a voice worker and a store call has written a new
\* identifier
C8_Witness ==
    \E t \in Tasks :
        /\ saves[t] # <<>>
        /\ tasks[t] # <<>>
        /\ VoiceOf(todo[t]) # {}
        /\ Written(t) \ loaded[t] # {}

(***************************************************************************)
(* C9.  With R > 0 the number of recorded slot timestamps that lie within  *)
(* the trailing W seconds never exceeds R, in every state, however the     *)
(* callers of the admission controller interleave.                         *)
(***************************************************************************)
StampsInWindow == {i \in 1..Len(stamps) : stamps[i] >= now - W}

C9_StampsWithinLimit ==
    R > 0 => Cardinality(StampsInWindow) <= R

\* the window is full and two refused callers wake at the same time
C9_Witness ==
    /\ R > 0
    /\ Cardinality(StampsInWindow) = R
    /\ \E a, b \in Workers :
         /\ a # b
         /\ wpc[a] = "sleep" /\ wpc[b] = "sleep"
         /\ wake[a] = wake[b]
         /\ now >= wake[a]

(***************************************************************************)
(* C10.  With R > 0 at most R gated calls start within any trailing window *)
(* of W seconds, for every K and every duration of the calls.              *)
(***************************************************************************)
StartsInWindow == {i \in 1..Len(starts) : starts[i] > now - W}

C10_StartsWithinLimit ==
    R > 0 => Cardinality(StartsInWindow) <= R

(***************************************************************************)
(* C11.  With R > 0 and no timestamp recorded yet, when R + 1 workers call *)
(* acquire at time 0, exactly R of them return at time 0; the remaining    *)
(* one does not return before time W, and while it sleeps its wake-up time *)
(* is not before max(W, cooldown): it was set to the time of the refusal   *)
(* plus max(oldest + W - now, cooldown).                                   *)
(***************************************************************************)
C11_ExtraCallerWaitsForWindow ==
    (R > 0 /\ Cardinality(asked) = R + 1) =>
        /\ Cardinality({w \in asked : got[w] = 0}) = R
        /\ \A w \in asked :
             got[w] # 0 =>
                 /\ got[w] = -1 \/ got[w] >= W
                 /\ wpc[w] = "sleep" => wake[w] >= MaxOf(W, cooldown)

\* the extra caller has slept, checked the window again and been admitted
C11_Witness ==
    /\ R > 0
    /\ Cardinality(asked) = R + 1
    /\ \E w \in asked : got[w] > 0

(***************************************************************************)
(* C12.  At no time are more than K workers inside the gated call,         *)
(* whichever calls of the processor (batch or push) the workers belong to. *)
(***************************************************************************)
InCall == {w \in Workers : wpc[w] = "call"}

C12_AtMostKInCall ==
    Cardinality(InCall) <= K

\* K workers are inside and another one is held at the semaphore
C12_Witness ==
    /\ Cardinality(InCall) = K
    /\ \E w \in Workers : wpc[w] = "gate"

(***************************************************************************)
(* C13.  With R <= 0 acquire returns at once for every caller: no          *)
(* timestamp is recorded and no caller sleeps; still no more than K        *)
(* workers are inside the gated call.                                      *)
(***************************************************************************)
C13_RateGateOff ==
    R <= 0 =>
        /\ stamps = <<>>
        /\ \A w \in Workers :
             /\ wpc[w] # "sleep"
             /\ wake[w] = 0
             /\ w \in asked => got[w] = 0
        /\ Cardinality(InCall) <= K

\* all workers called at time 0 and got through at once; one is held at the
\* semaphore
C13_Witness ==
    /\ R <= 0
    /\ asked = Workers
    /\ \A w \in Workers : got[w] = 0
    /\ Cardinality(InCall) = K
    /\ \E w \in Workers : wpc[w] = "gate"

(***************************************************************************)
(* C14.  A worker that leaves the gated call gives its permit back, however*)
(* the call ended: the free permits are K minus the workers inside, and    *)
(* all K are free once every worker has finished.                          *)
(***************************************************************************)
C14_PermitsReturned ==
    /\ permits = K - Cardinality(InCall)
    /\ (\A w \in Workers : wpc[w] = "finished") => permits = K

\* every worker has finished, the last call ended with an exception
C14_Witness ==
    /\ \A w \in Workers : wpc[w] = "finished"
    /\ ended = "raised"
    /\ permits = K

(***************************************************************************)
(* C15.  After any sequence of mark_if_new calls the dedup cache holds at  *)
(* most WEBHOOK_UPDATE_CACHE_SIZE identifiers.                             *)
(***************************************************************************)
C15_CacheWithinCapacity ==
    /\ Len(cacheQ) <= WEBHOOK_UPDATE_CACHE_SIZE
    /\ Cardinality(cacheSet) <= WEBHOOK_UPDATE_CACHE_SIZE

\* the cache is full and has overflowed before
C15_Witness ==
    /\ Len(cacheQ) = WEBHOOK_UPDATE_CACHE_SIZE
    /\ Len(order) > WEBHOOK_UPDATE_CACHE_SIZE

(***************************************************************************)
(* C16.  mark_if_new(id) answers false and leaves the cache as it is       *)
(* exactly when id is in the cache; otherwise it answers true and id is    *)
(* the newest entry afterwards.  Two answers of true for one identifier    *)
(* are separated by the insertion of at least as many other identifiers as *)
(* the cache holds: of several callers that present the same new           *)
(* identifier with fewer insertions between them, one is answered true.    *)
(***************************************************************************)
Marked == last.kind = "answered" /\ last.status = 200

C16_MarkIfNew ==
    /\ Marked =>
         /\ last.fresh = (last.body.id \notin ElementsOf(last.before))
         /\ ~last.fresh => cacheQ = last.before
         /\ last.fresh =>
              /\ cacheQ # <<>>
              /\ cacheQ[Len(cacheQ)] = last.body.id
              /\ last.body.id \in cacheSet
    /\ \A i \in 1..Len(order) : \A j \in 1..Len(order) :
           (i < j /\ order[i] = order[j]) => j - i > WEBHOOK_UPDATE_CACHE_SIZE

\* of three requests with one identifier the first was answered true, the
\* second, suspended together with the first, was answered false just now,
\* and the third is still suspended
C16_Witness ==
    /\ Marked
    /\ ~last.fresh
    /\ order # <<>>
    /\ order[Len(order)] = last.body.id
    /\ \E i \in 1..Len(parsing) : parsing[i].body = last.body

\* C16 as stated: of the requests in progress together that present one
\* identifier, the cache answers true to one
C16_OneTruePerIdentifier == last.kind = "answered" => ~last.again

(***************************************************************************)
(* C17.  Eviction is first-in first-out by insertion: the cache holds the  *)
(* identifiers inserted last, as many as its capacity, in the order of     *)
(* their insertion and each once; an identifier evicted is new again, and  *)
(* a duplicate hit moves nothing.                                          *)
(***************************************************************************)
LastInserted(n) ==
    SubSeq(order, IF Len(order) > n THEN Len(order) - n + 1 ELSE 1, Len(order))

C17_FifoEviction ==
    /\ cacheQ = LastInserted(WEBHOOK_UPDATE_CACHE_SIZE)
    /\ cacheSet = ElementsOf(cacheQ)
    /\ Cardinality(cacheSet) = Len(cacheQ)
    /\ (Marked /\ ~last.fresh) => cacheQ = last.before

\* capacity + 1 distinct identifiers were inserted into a cache of more than
\* one entry, and the first of them was then taken as new
C17_Witness ==
    /\ WEBHOOK_UPDATE_CACHE_SIZE > 1
    /\ Len(order) = WEBHOOK_UPDATE_CACHE_SIZE + 2
    /\ Cardinality({order[i] : i \in 1..(WEBHOOK_UPDATE_CACHE_SIZE + 1)})
           = WEBHOOK_UPDATE_CACHE_SIZE + 1
    /\ order[Len(order)] = order[1]

(***************************************************************************)
(* C18.  At no time are two process_update executions for one identifier   *)
(* in progress, whatever other deliveries arrive between the deliveries of *)
(* that identifier.                                                        *)
(***************************************************************************)
InProgress(t) == kind[t] = "push" /\ pc[t] \notin {"idle", "queued", "done"}

C18_OneProcessingPerIdentifier ==
    \A t1 \in Tasks : \A t2 \in Tasks :
        (t1 # t2 /\ InProgress(t1) /\ InProgress(t2)) => upd[t1] # upd[t2]


(***************************************************************************)
(* C19.  A request that passed every check is answered 200; the handler is *)
(* scheduled as a background task exactly when mark_if_new answered true,  *)
(* and the task is still alive when the reply is made.  A duplicate is     *)
(* answered 200 and schedules nothing.                                     *)
(***************************************************************************)
C19_DispatchOnAdmission ==
    /\ Marked =>
         /\ last.started = last.fresh
         /\ last.started => last.alive >= 1
    /\ (last.kind = "answered" /\ last.body.parse = "update") =>
           last.status = 200

\* a duplicate was answered 200 without a task while the task of the first
\* delivery, answered 200 before, has not ended
C19_Witness ==
    /\ Marked
    /\ ~last.fresh
    /\ ~last.started
    /\ last.alive = 1
    /\ running = 1
    /\ Len(order) = 1

(***************************************************************************)
(* C20.  A request whose secret header is absent or differs from the       *)
(* registered secret, or whose source address lies in no allowed network,  *)
(* is rejected; a rejected request, whatever refused it, leaves the cache  *)
(* as it was and dispatches nothing.                                       *)
(***************************************************************************)
C20_RejectedLeavesNoTrace ==
    last.kind = "answered" =>
        /\ (last.secret = "" \/ last.secret # Secret
                \/ \A network \in allowed_networks : last.ip \notin network)
               => last.status \in {403, 503}
        /\ last.status # 200 =>
               /\ cacheQ = last.before
               /\ cacheSet = ElementsOf(last.before)
               /\ ~last.fresh
               /\ ~last.started
               /\ running <= last.alive

\* the registered secret came from an address outside the allowed networks
\* while the cache held an identifier: the request was refused with 403
C20_Witness ==
    /\ last.kind = "answered"
    /\ last.status = 403
    /\ last.secret = Secret
    /\ last.ip = "10.0.0.1"
    /\ cacheQ # <<>>

(***************************************************************************)
(* C24.  In a batch the failure of one extraction stops no other: every    *)
(* worker has returned when the Decision stage is called, every text       *)
(* update is among the successes, and the successful identifiers are       *)
(* handed to the ledger also when the Decision call fails.                 *)
(***************************************************************************)
C24_SiblingsExtractedAndPersisted ==
    \A t \in Tasks :
        (kind[t] = "batch" /\ pc[t] = "done" /\ decided[t] # {}) =>
            /\ pending[t] = {}
            /\ successful[t] \subseteq todo[t]
            /\ TextOf(todo[t]) \subseteq successful[t]
            /\ exc[t] \in {"decide", "inference"} =>
                   successful[t] \subseteq Written(t)

(***************************************************************************)
(* C30.  Every call of run() and of process_update that has returned has   *)
(* logged exactly one run summary.                                         *)
(***************************************************************************)
C30_OneSummaryPerCall ==
    \A t \in Tasks :
        (pc[t] = "done" /\ ret[t] # "raised") => summaries[t] = 1

(***************************************************************************)
(* C25: get_processed_update_ids returns the empty set when the state      *)
(* file is missing, cannot be read or holds no valid JSON, and does not    *)
(* raise, so that the run goes on and fetches from offset 1.               *)
(***************************************************************************)
Unreadable(d) ==
    \/ d.state = "missing"
    \/ ~d.permitted
    \/ d.state = "binary"
    \/ d.state = "text" /\ ~d.closed

C25_LoadFailsOpen ==
    (fop.op = "load" /\ fop.mkdir /\ Unreadable(fop.before)) =>
        /\ fop.result = Returned({})
        /\ FetchOffset(fop.result.ids) = 1

(***************************************************************************)
(* C26: a save_processed_update_ids that raises leaves the file as it      *)
(* was: the load that follows returns what a load before the call would    *)
(* have returned.                                                          *)
(***************************************************************************)
C26_FailedSaveKeepsLedger ==
    (fop.op = "save" /\ fop.result.raised) =>
        LoadResult(disk) = LoadResult(fop.before)

(***************************************************************************)
(* C27: after a save_processed_update_ids(S) that returned, the load       *)
(* returns S and the file holds the same list whatever the order of the    *)
(* elements was; saving what has been loaded from a file that a save wrote *)
(* leaves the file as it was.                                              *)
(***************************************************************************)
Increasing(q) == \A i, j \in 1..Len(q) : i < j => q[i] < q[j]

C27_RoundTrip ==
    /\ (fop.op \in {"save", "resave"} /\ ~fop.result.raised) =>
           /\ LoadResult(disk) = Returned(ElementsOf(fop.arg))
           /\ Increasing(disk.items)
    /\ (fop.op = "resave" /\ ~fop.result.raised) =>
           /\ LoadResult(disk).ids = LoadResult(fop.before).ids
           /\ (fop.before.state = "text" /\ fop.before.closed) =>
                  disk = [fop.before EXCEPT !.permitted = TRUE]

C27_Witness ==
    /\ fop.op = "resave"
    /\ ~fop.result.raised
    /\ fop.before.state = "text"
    /\ fop.before.closed
    /\ Len(fop.arg) >= 2
    /\ ~Increasing(fop.arg)


(***************************************************************************)
(* C21: a batch run hands max(ledger) + 1 to get_updates (1 when the       *)
(* ledger is empty).  With a source that returns nothing below the offset  *)
(* and confirms what lies below it, an identifier below the largest of     *)
(* the ledger that is not in the ledger is not fetched and not processed   *)
(* by that run nor by any later run.                                       *)
(***************************************************************************)
PastFetch == boot.pc = "call" /\ pc[Main] \notin {"idle", "fetch"}

C21_BelowWatermarkNeverAgain ==
    source.mode = "log" =>
        /\ source.lost \cap source.fetched = {}
        /\ source.lost \cap todo[Main] = {}
        /\ source.lost \cap source.held = {}
        /\ source.offset # 0 =>
               /\ loaded[Main] = {} => source.offset = 1
               /\ loaded[Main] # {} =>
                      /\ source.offset - 1 \in loaded[Main]
                      /\ \A p \in loaded[Main] : p < source.offset
               /\ \A u \in source.fetched \cup todo[Main] :
                      u >= source.offset

C21_Witness ==
    /\ source.mode = "log"
    /\ source.offset # 0
    /\ source.fetched # {}
    /\ loaded[Main] # {}
    /\ BelowMaxNotIn(loaded[Main]) # {}
    /\ source.skipped # {}

(***************************************************************************)
(* C22: every update that a batch run fetched and left out of the ledger   *)
(* is returned to the next batch run by the source that still holds it.    *)
(***************************************************************************)
C22_UnmarkedIsRetried ==
    source.mode = "log" => source.skipped = {}

(***************************************************************************)
(* C23: with the ledger {1, 2} and a fetch that returns the updates 1, 2,  *)
(* 3 and 4, of which 3 has no payload and 4 is a text message, the         *)
(* updates 3 and 4 go to extraction, only 4 yields a thought, and the set  *)
(* written is {1, 2, 4}.                                                   *)
(***************************************************************************)
Scenario23 ==
    /\ PastFetch
    /\ loaded[Main] = {1, 2}
    /\ source.fetched = {1, 2, 3, 4}

C23_LedgerScenario ==
    Scenario23 =>
        /\ PayloadOf(3) = "none"
        /\ PayloadOf(4) = "text"
        /\ todo[Main] = {3, 4}
        /\ successful[Main] = {4}
        /\ \A i \in 1..Len(saves[Main]) : saves[Main][i] = {1, 2, 4}
        /\ (pc[Main] = "done" /\ exc[Main] \in {"none", "inference"}) =>
               /\ saves[Main] = <<{1, 2, 4}>>
               /\ get_processed_update_ids = {1, 2, 4}

C23_Witness ==
    /\ Scenario23
    /\ pc[Main] = "done"
    /\ exc[Main] = "none"
    /\ get_processed_update_ids = {1, 2, 4}

(***************************************************************************)
(* C29: startup makes at most STARTUP_POLLING_MAX_RUNS passes, one after   *)
(* another; no pass follows a pass that returned no pending updates; the   *)
(* webhook is set only after the loop has been left, which is also the     *)
(* case when every pass returned pending updates.                          *)
(***************************************************************************)
LoopLeft ==
    \/ boot.results # <<>> /\ boot.results[Len(boot.results)] = "false"
    \/ Len(boot.results) = boot.max_runs

C29_CatchUpThenWebhook ==
    /\ Len(boot.results) <= boot.max_runs
    /\ \A i \in 1..Len(boot.results) - 1 : boot.results[i] = "true"
    /\ boot.pc = "call" => \A i \in 1..Len(boot.results) : boot.results[i] = "true"
    /\ boot.pc # "call" => pc[Main] = "idle"
    /\ boot.pc \in {"ended", "serving"} => LoopLeft
    /\ boot.webhook => boot.pc = "serving"

C29_Witness ==
    /\ boot.webhook
    /\ boot.max_runs >= 2
    /\ Len(boot.results) = boot.max_runs
    /\ \A i \in 1..Len(boot.results) : boot.results[i] = "true"


(***************************************************************************)
(* C28: for every list of intents, the store calls are dispatched for      *)
(* exactly the complete intents, every create before every update and      *)
(* every update before every archive, in the order of the list within a    *)
(* class; all of them are in flight together (any of them may be the next  *)
(* to end, whatever its class).                                            *)
(***************************************************************************)
ClassRank(op) ==
    CASE op = "create" -> 1
      [] op = "update" -> 2
      [] OTHER         -> 3

C28_DispatchOrder ==
    exec.pc # "called" =>
        /\ {exec.calls[i].pos : i \in 1..Len(exec.calls)} =
               {k \in 1..Len(exec.actions) : IsSubmittable(exec.actions[k])}
        /\ \A i \in 1..Len(exec.calls) :
               exec.calls[i].op = exec.actions[exec.calls[i].pos].action
        /\ \A i, j \in 1..Len(exec.calls) :
               i < j =>
                   /\ ClassRank(exec.calls[i].op) <= ClassRank(exec.calls[j].op)
                   /\ exec.calls[i].op = exec.calls[j].op =>
                          exec.calls[i].pos < exec.calls[j].pos
        /\ exec.pc = "gather" =>
               \A i \in 1..Len(exec.calls) :
                   exec.calls[i].st = "inflight" => ENABLED ExecCallEnds(i)

C28_Witness ==
    /\ exec.pc = "gather"
    /\ Len(exec.calls) = 3
    /\ exec.actions[1].action = "archive"
    /\ exec.calls[1].op = "create"
    /\ exec.calls[1].st = "inflight"
    /\ exec.calls[2].op = "update"
    /\ exec.calls[2].st = "inflight"
    /\ exec.calls[3].op = "archive"
    /\ exec.calls[3].st = "ok"

(***************************************************************************)
(* C31: a call whose filter left no update, or whose extraction returned   *)
(* text for no update, has ended without a request to the document store,  *)
(* without context assembly, without a Decision call and without action    *)
(* execution, has raised nothing and has caught nothing, on the batch      *)
(* pathway and on the push pathway.                                        *)
(***************************************************************************)
FilterLeftNothing(t) ==
    \/ kind[t] = "batch" /\ todo[t] = {} /\ exc[t] \notin {"load", "fetch"}
    \/ kind[t] = "push" /\ upd[t] \in loaded[t]

ExtractionLeftNothing(t) ==
    todo[t] # {} /\ pending[t] = {} /\ successful[t] = {}

C31_EmptyShortCircuits ==
    \A t \in Tasks :
        (pc[t] = "done" /\ (FilterLeftNothing(t) \/ ExtractionLeftNothing(t)))
            => /\ called[t] = {}
               /\ decided[t] = {}
               /\ tasks[t] = <<>>
               /\ ret[t] # "raised"
               /\ exc[t] = "none"

(***************************************************************************)
(* C32: the filter of a batch run hands to extraction the fetched updates  *)
(* that are not in the ledger the run loaded, and no other; when every     *)
(* fetched update is in that ledger (the run writes at line 145, to a     *)
(* file that holds a ledger, and the write returns), nothing is extracted  *)
(* and the file holds after the step what it held before.                  *)
(***************************************************************************)
AllFetchedInLedger(t) ==
    /\ fileOk
    /\ kind[t] = "batch"
    /\ pc[t] = "fetch"
    /\ saves'[t] # saves[t]
    /\ exc'[t] = "none"

C32_FilterKeepsLedger ==
    [][\A t \in Tasks :
          /\ (kind[t] = "batch" /\ pc[t] = "fetch") =>
                 todo'[t] \cap loaded[t] = {}
          /\ AllFetchedInLedger(t) =>
                 /\ todo'[t] = {}
                 /\ pending'[t] = {}
                 /\ get_processed_update_ids' = get_processed_update_ids]_vars

(***************************************************************************)
(* C33: a store call is made for an intent only if the intent is a create  *)
(* with a payload, an update with a target and a payload, or an archive    *)
(* with a target; every such intent of the list has exactly one call,      *)
(* whatever else the list holds, and an intent of another action type has  *)
(* none.                                                                   *)
(***************************************************************************)
CallsFor(k) == {i \in 1..Len(exec.calls) : exec.calls[i].pos = k}

C33_OnlyCompleteIntents ==
    exec.pc # "called" =>
        \A k \in 1..Len(exec.actions) :
            LET a == exec.actions[k]
                complete ==
                    \/ a.action = "create" /\ a.data
                    \/ a.action = "update" /\ a.page_id /\ a.data
                    \/ a.action = "archive" /\ a.page_id
            IN  /\ complete => Cardinality(CallsFor(k)) = 1
                /\ ~complete => CallsFor(k) = {}

\* a list with an unknown action type, an update without a target and a
\* complete archive has led to one store call
C33_Witness ==
    /\ exec.pc = "gather"
    /\ Len(exec.actions) = 3
    /\ exec.actions[1] = [action |-> "other", page_id |-> TRUE, data |-> TRUE]
    /\ exec.actions[2] = [action |-> "update", page_id |-> FALSE, data |-> TRUE]
    /\ exec.actions[3] = [action |-> "archive", page_id |-> TRUE, data |-> FALSE]
    /\ Len(exec.calls) = 1
    /\ exec.calls[1].op = "archive"

(***************************************************************************)
(* C34: when _execute_notion_actions has returned, the executed-count of   *)
(* the summary is the number of submitted intents minus the number whose   *)
(* store call raised, and not below zero; every submitted call has run to  *)
(* its end, and while some call has raised every other call in flight may  *)
(* still end.                                                              *)
(***************************************************************************)
C34_ExecutedCount ==
    /\ exec.pc = "returned" =>
           /\ exec.summary = Len(exec.calls) - Failures(exec.calls)
           /\ exec.summary >= 0
           /\ \A i \in 1..Len(exec.calls) : exec.calls[i].st # "inflight"
    /\ (exec.pc = "gather" /\ Failures(exec.calls) > 0) =>
           \A i \in 1..Len(exec.calls) :
               exec.calls[i].st = "inflight" => ENABLED ExecCallEnds(i)

(***************************************************************************)
(* C35: the context _get_rag_context returns names a page at most once;    *)
(* the pages named are those some search returned, in the order of their   *)
(* first occurrence (thought by thought, and within a thought in the order *)
(* of the search), each with the content of that first occurrence; it is   *)
(* the structuring-failed sentinel when structuring returned nothing and   *)
(* the no-relevant-documents sentinel when no search returned a page; it   *)
(* is never the empty string.                                              *)
(***************************************************************************)
\* the places (thought, hit) at which a search returned page p
Occurrences(p) ==
    {<<i, j>> \in (1..Len(rag.structured)) \X (1..MaxHits) :
        /\ rag.structured[i].kind = "described"
        /\ j <= Len(rag.structured[i].hits)
        /\ rag.structured[i].hits[j] = p}

Before(a, b) == a[1] < b[1] \/ (a[1] = b[1] /\ a[2] < b[2])

FirstOccurrence(p) ==
    CHOOSE a \in Occurrences(p) : \A b \in Occurrences(p) : a = b \/ Before(a, b)

\* the places in the returned string at which a page is named
Named == {n \in 1..Len(rag.out) : rag.out[n].k = "id"}

C35_ContextListsFirstOccurrences ==
    rag.pc = "returned" =>
        /\ rag.out # <<>>
        /\ rag.structured = <<>> => rag.out = StructuringFailed
        /\ (rag.structured # <<>> /\ \A p \in Pages : Occurrences(p) = {})
               => rag.out = NoRelevantDocuments
        /\ \A m, n \in Named : m # n => rag.out[m].t # rag.out[n].t
        /\ {rag.out[n].t : n \in Named} = {p \in Pages : Occurrences(p) # {}}
        /\ \A n \in Named :
               /\ rag.out[n + 2].k = "content"
               /\ rag.out[n + 2].at = FirstOccurrence(rag.out[n].t)
        /\ \A m, n \in Named :
               m < n => Before(rag.out[m + 2].at, rag.out[n + 2].at)

\* two thoughts: the search of the first returns a document without page
\* id and page p2, that of the second returns p1 and p2 again
C35_Witness ==
    /\ rag.pc = "returned"
    /\ Len(rag.structured) = 2
    /\ rag.structured[1].hits = <<"none", "p2">>
    /\ rag.structured[2].hits = <<"p1", "p2">>
    /\ Cardinality(Named) = 2

(***************************************************************************)
(* C36: the ledger never loses an identifier: a write that returns, to a   *)
(* file that holds a ledger, stores a superset of what the file held just  *)
(* before it.                                                              *)
(***************************************************************************)
C36_LedgerOnlyGrows ==
    [][(fileOk /\ fileOk' /\ ledger' # ledger) => ledger \subseteq ledger']_vars

(***************************************************************************)
(* C37: with R > 0 and time advancing, every caller of acquire that was    *)
(* refused and sleeps is let through in the end, whatever the number of    *)
(* callers, the times of their calls and the cooldown.                     *)
(***************************************************************************)
C37_EveryCallerGetsThrough ==
    \A w \in Workers : (wpc[w] = "sleep") ~> (wpc[w] = "gate")

\* with one slot per window and no cooldown three callers of time 0 are all
\* through: two of them woke when the oldest timestamp was exactly W old
C37_Witness ==
    /\ R = 1
    /\ cooldown = 0
    /\ asked = Workers
    /\ \A w \in Workers : wpc[w] = "gate"

(***************************************************************************)
(* C38: run() returns True exactly when its fetch returned an update that  *)
(* is not in the ledger it loaded, whatever became of the extraction and   *)
(* of the ledger, and False when the load or the fetch raised; after a     *)
(* pass that returned False the startup loop makes no further pass.        *)
(***************************************************************************)
C38_RunReturnsPending ==
    /\ pc[Main] = "done" =>
           /\ ret[Main] \in {"true", "false"}
           /\ (ret[Main] = "true") =
                  (\E u \in source.fetched : u \notin loaded[Main])
           /\ exc[Main] \in {"load", "fetch"} => ret[Main] = "false"
    /\ (boot.results # <<>> /\ boot.results[Len(boot.results)] = "false") =>
           boot.pc \notin {"loop", "call"}

\* the first pass returned True although it left its updates out of the
\* ledger; the load of the second pass has raised and the pass returns False
C38_Witness ==
    /\ pc[Main] = "done"
    /\ exc[Main] = "load"
    /\ ret[Main] = "false"
    /\ boot.results = <<"true">>
    /\ source.retry # {}
    /\ ~fileOk

(***************************************************************************)
(* C39: a step that leaves no secret registered (no registration, or a     *)
(* call of register_update_handler that was rejected for its missing       *)
(* secret) leaves the registered handler as it was; and while no secret is *)
(* registered no step of the endpoint changes the dedup cache or starts a  *)
(* handler task.                                                           *)
(***************************************************************************)
C39_RejectedRegistrationIsNoOp ==
    [][/\ webhook_secret' = "none" => update_handler' = update_handler
       /\ webhook_secret = "none" =>
              /\ cacheQ' = cacheQ
              /\ cacheSet' = cacheSet
              /\ running' <= running]_vars

(***************************************************************************)
(* C40: in every reachable state the deque and the set of the dedup cache  *)
(* hold the same identifiers and the deque holds none of them twice, so    *)
(* the membership test on the set answers as the deque would and the entry *)
(* the next eviction takes off the deque is one the set can discard.       *)
(***************************************************************************)
C40_QueueAndSetAgree ==
    /\ \A id \in cacheSet \cup ElementsOf(cacheQ) :
           (id \in cacheSet) <=> (\E i \in 1..Len(cacheQ) : cacheQ[i] = id)
    /\ \A i \in 1..Len(cacheQ) : \A j \in 1..Len(cacheQ) :
           i # j => cacheQ[i] # cacheQ[j]
    /\ \A id \in HookIds : MarkIsNew(id) = (id \notin ElementsOf(cacheQ))
    /\ cacheQ # <<>> => PopLeft(cacheQ).oldest \in cacheSet

\* a full cache of more than one entry has just taken a new identifier and
\* evicted its oldest, which is gone from the deque and from the set
C40_Witness ==
    /\ Marked
    /\ last.fresh
    /\ WEBHOOK_UPDATE_CACHE_SIZE > 1
    /\ Len(last.before) = WEBHOOK_UPDATE_CACHE_SIZE
    /\ last.before[1] \notin cacheSet
    /\ last.before[1] \notin ElementsOf(cacheQ)
    /\ Len(cacheQ) = WEBHOOK_UPDATE_CACHE_SIZE

=============================================================================
